---- MODULE Spec2Model ----
(***************************************************************************)
(* A model of the Airtable -> PubPub gateway scripts.                      *)
(*                                                                         *)
(*   SpecMigrate   create_test_pubs.py: main() creates one pub per sample  *)
(*                 record and then updates the relations of the pubs.      *)
(*   SpecTransfer  improved_transfer.py and transfer_config_and_data.py:   *)
(*                 main() copies pub types, stages, move constraints (and  *)
(*                 fields) from the source community to the target one,    *)
(*                 and may be run a second time against the same target.   *)
(*   SpecFunctions suggest_field_mapping and format_field_value of         *)
(*                 create_test_pubs.py, called on their own.               *)
(*   SpecDryRun    test_pubpub_api_with_airtable.py: the write methods of  *)
(*                 PubPubAPI, with and without dry_run.                    *)
(*                                                                         *)
(* Python strings are sequences of one-character strings, so that lower(), *)
(* replace(), re.sub() and re.search() are computed and not assumed.       *)
(* Python values are tagged records: [t |-> "none"], [t |-> "str", v |-> s]*)
(* [t |-> "list", v |-> <<values>>], and "int", "float", "bool" likewise.  *)
(***************************************************************************)
EXTENDS Integers, Sequences, FiniteSets, TLC

\* Bounds of the model.
MaxClock == 1       \* seconds the wall clock may advance during one run
MaxFailures == 2    \* HTTP calls that may fail during one behaviour
MaxApiCalls == 3    \* method calls made on one PubPubAPI object

(***************************************************************************)
(* State                                                                   *)
(***************************************************************************)
\* create_test_pubs.py: one run of main().
VARIABLES
    mpc,                  \* where main() is: start, create, link, done, aborted
    mappings,             \* the loaded mappings file: table -> entry
    sample_data,          \* the loaded sample: table -> records
    ti, ri,               \* the table and the record the create loop is at
    li,                   \* the entry of relations_to_update the link loop is at
    clock,                \* the wall clock, in seconds
    failures,             \* HTTP calls that have failed so far
    created_pubs,         \* main's created_pubs
    relations_to_update,  \* main's relations_to_update
    posts,                \* every POST /pubs sent, with the target's answer
    patches               \* every PATCH /pubs/<id>/relations sent

migVars == <<mpc, mappings, sample_data, ti, ri, li, clock, failures,
             created_pubs, relations_to_update, posts, patches>>

\* improved_transfer.py and transfer_config_and_data.py: the runs of main().
VARIABLES
    engine,            \* "improved" or "basic"
    run,               \* 1 for the first run of main(), 2 for the second (of
                       \* the transfer script or of create_test_pubs.py)
    tpc,               \* where main() is
    tix,               \* the item the current loop is at
    source,            \* the source community: [pub_types, stages, fields]
    config,            \* what get_source_configuration returned
    tgtTypes,          \* the pub types of the target community
    tgtStages,         \* the stages of the target community
    tgtFields,         \* the fields of the target community
    existing_types,    \* improved: name -> id of the types listed at the start
    existing_stages,   \* improved: name -> id of the stages listed at the start
    type_id_mapping,   \* source type id -> target type id
    stage_id_mapping,  \* source stage id -> target stage id
    calls,             \* every write sent to the target in this run, in order
    afterFirst         \* the target's type and stage counts when run 1 ended

cfgVars == <<engine, run, tpc, tix, source, config, tgtTypes, tgtStages, tgtFields,
             existing_types, existing_stages, type_id_mapping, stage_id_mapping,
             calls, afterFirst>>

\* The helpers of create_test_pubs.py called on their own.
VARIABLES
    fcall              \* the last call: the function, its arguments, its result

fnVars == <<fcall>>

\* test_pubpub_api_with_airtable.py: one PubPubAPI object and the target it
\* talks to.
VARIABLES
    dry_run,           \* PubPubAPI.dry_run
    api_calls,         \* PubPubAPI.api_calls
    requests_sent,     \* the HTTP requests the object has sent to the target
    returned           \* what the last method call returned, or that it raised

dryVars == <<dry_run, api_calls, requests_sent, returned>>

\* pubpub_dryrun.py: one run of main() with its PubPubDryRun object.
VARIABLES
    dpc,               \* where main() is: load, community, collections,
                       \* preprints, save, exited
    mock_data,         \* the preprints of the mock data file
    pix,               \* the preprint the loop of process_mock_data is at
    dclock,            \* the wall clock, in seconds
    results,           \* PubPubDryRun.results
    saved,             \* save_results has written the results file
    exit_status        \* what main() returned

mockVars == <<dpc, mock_data, pix, dclock, results, saved, exit_status>>

vars == <<migVars, cfgVars, fnVars, dryVars, mockVars>>

migRest == <<mpc, mappings, sample_data, ti, ri, li, clock, created_pubs,
             relations_to_update, posts, patches>>

(***************************************************************************)
(* Python values and strings                                               *)
(***************************************************************************)
None == [t |-> "none"]
Str(s) == [t |-> "str", v |-> s]
List(l) == [t |-> "list", v |-> l]

IsNone(x) == x.t = "none"
IsList(x) == x.t = "list"
\* Numbers and booleans.  A float is kept by its value when that is a whole
\* number (42.0 is Float(42)); the model has no other floats.
Integer(n) == [t |-> "int", v |-> n]
Float(n) == [t |-> "float", v |-> n]
Bool(b) == [t |-> "bool", v |-> b]
IsStr(x) == x.t = "str"
\* isinstance(x, (int, float)): bool is a subclass of int.
IsNumber(x) == x.t \in {"int", "float", "bool"}

\* Python truthiness: None, "", [], 0, 0.0 and False are false.
Truthy(x) ==
    CASE x.t = "none" -> FALSE
      [] x.t \in {"str", "list"} -> Len(x.v) > 0
      [] x.t = "bool" -> x.v
      [] OTHER -> x.v # 0

UpperCase == <<"A","B","C","D","E","F","G","H","I","J","K","L","M",
               "N","O","P","Q","R","S","T","U","V","W","X","Y","Z">>
LowerCase == <<"a","b","c","d","e","f","g","h","i","j","k","l","m",
               "n","o","p","q","r","s","t","u","v","w","x","y","z">>
Digits == <<"0","1","2","3","4","5","6","7","8","9">>

LowerChar(c) ==
    IF \E i \in 1..26 : UpperCase[i] = c
    THEN LowerCase[CHOOSE i \in 1..26 : UpperCase[i] = c]
    ELSE c

\* str.lower()
Lower(s) == [i \in 1..Len(s) |-> LowerChar(s[i])]

\* re.search(pattern, s) for a pattern without metacharacters: p occurs in s.
Contains(s, p) ==
    \E i \in 1..(Len(s) - Len(p) + 1) : SubSeq(s, i, i + Len(p) - 1) = p

RECURSIVE Filter(_, _)
Filter(s, keep) ==
    IF s = <<>> THEN <<>>
    ELSE (IF Head(s) \in keep THEN <<Head(s)>> ELSE <<>>) \o Filter(Tail(s), keep)

IsDigit(c) == \E i \in 1..10 : Digits[i] = c
DigitValue(c) == (CHOOSE i \in 1..10 : Digits[i] = c) - 1
AllDigits(s) == \A i \in 1..Len(s) : IsDigit(s[i])

\* int(s) for a string of decimal digits.
RECURSIVE NumberOf(_)
NumberOf(s) ==
    IF s = <<>> THEN 0
    ELSE 10 * NumberOf(SubSeq(s, 1, Len(s) - 1)) + DigitValue(s[Len(s)])

\* str(n) for n >= 0, and padded with zeros to a width ("%02d", "%04d").
RECURSIVE NatChars(_)
NatChars(n) ==
    IF n < 10 THEN <<Digits[n + 1]>>
    ELSE NatChars(n \div 10) \o <<Digits[(n % 10) + 1]>>
RECURSIVE Padded(_, _)
Padded(n, width) ==
    IF width <= 0 THEN <<>>
    ELSE Padded(n \div 10, width - 1) \o <<Digits[(n % 10) + 1]>>
IntChars(n) == IF n < 0 THEN <<"-">> \o NatChars(-n) ELSE NatChars(n)

\* A variant of PyStrScalar: repr() instead of str(), a string keeps its quotes.
PyReprScalar(x) ==
    CASE x.t = "str" -> <<"'">> \o x.v \o <<"'">>
      [] x.t = "int" -> IntChars(x.v)
      [] x.t = "float" -> IntChars(x.v) \o <<".", "0">>
      [] x.t = "bool" -> IF x.v THEN <<"T","r","u","e">> ELSE <<"F","a","l","s","e">>
      [] OTHER -> <<"N","o","n","e">>

\* str(x) for a value that is not a list.
PyStrScalar(x) ==
    CASE x.t = "str" -> x.v
      [] x.t = "int" -> IntChars(x.v)
      [] x.t = "float" -> IntChars(x.v) \o <<".", "0">>
      [] x.t = "bool" -> IF x.v THEN <<"T","r","u","e">> ELSE <<"F","a","l","s","e">>
      [] OTHER -> <<"N","o","n","e">>

\* repr(x) of a list element that is not a list: a string gets its quotes (the
\* strings of the model hold no quote and no backslash).
PyRepr(x) == IF x.t = "str" THEN <<"'">> \o x.v \o <<"'">> ELSE PyStrScalar(x)

\* ", ".join(repr(e) for e in l)
RECURSIVE JoinReprs(_)
JoinReprs(l) ==
    IF l = <<>> THEN <<>>
    ELSE IF Len(l) = 1 THEN PyRepr(l[1])
    ELSE PyRepr(Head(l)) \o <<",", " ">> \o JoinReprs(Tail(l))

\* str(x): of a list, "[" + the reprs of its elements + "]".
PyStr(x) == IF x.t = "list" THEN <<"[">> \o JoinReprs(x.v) \o <<"]">>
            ELSE PyStrScalar(x)

\* [str(v) for v in l]
StrEach(l) == [i \in 1..Len(l) |-> Str(PyStr(l[i]))]

\* bool(x)
PyBool(x) == Bool(Truthy(x))

(***************************************************************************)
(* create_test_pubs.py: constants                                          *)
(***************************************************************************)
FIELD_MAPPING_RULES == <<
    [pubpub_field |-> "title", patterns |-> <<
        <<"t","i","t","l","e">>,
        <<"n","a","m","e">>,
        <<"h","e","a","d","i","n","g">>,
        <<"s","u","b","j","e","c","t">>>>],
    [pubpub_field |-> "description", patterns |-> <<
        <<"d","e","s","c","r","i","p","t","i","o","n">>,
        <<"a","b","s","t","r","a","c","t">>,
        <<"s","u","m","m","a","r","y">>,
        <<"n","o","t","e","s">>>>],
    [pubpub_field |-> "pubTypeId", patterns |-> <<
        <<"t","y","p","e">>,
        <<"c","a","t","e","g","o","r","y">>,
        <<"k","i","n","d">>>>],
    [pubpub_field |-> "relations", patterns |-> <<
        <<"r","e","l","a","t","e","d">>,
        <<"l","i","n","k">>,
        <<"r","e","f","e","r","e","n","c","e">>,
        <<"p","a","r","e","n","t">>,
        <<"c","h","i","l","d">>>>],
    [pubpub_field |-> "status", patterns |-> <<
        <<"s","t","a","t","u","s">>,
        <<"s","t","a","t","e">>,
        <<"p","h","a","s","e">>>>],
    [pubpub_field |-> "assignee", patterns |-> <<
        <<"a","s","s","i","g","n","e","e">>,
        <<"o","w","n","e","r">>,
        <<"r","e","s","p","o","n","s","i","b","l","e">>>>],
    [pubpub_field |-> "author", patterns |-> <<
        <<"a","u","t","h","o","r">>,
        <<"c","r","e","a","t","o","r">>,
        <<"c","o","n","t","r","i","b","u","t","o","r">>>>],
    [pubpub_field |-> "email", patterns |-> <<
        <<"e","m","a","i","l">>,
        <<"c","o","n","t","a","c","t">>,
        <<"m","a","i","l">>>>],
    [pubpub_field |-> "url", patterns |-> <<
        <<"u","r","l">>,
        <<"l","i","n","k">>,
        <<"w","e","b","s","i","t","e">>>>],
    [pubpub_field |-> "date", patterns |-> <<
        <<"d","a","t","e">>,
        <<"c","r","e","a","t","e","d">>,
        <<"u","p","d","a","t","e","d">>,
        <<"t","i","m","e","s","t","a","m","p">>>>]
>>

\* "no mapping": suggest_field_mapping returned None, or the cache has no entry.
NoMapping == [pubpub_field |-> "", confidence |-> ""]

\* The (rule, pattern) pairs in the order the two nested loops visit them.
AllRulePairs == {<<r, p>> \in (1..Len(FIELD_MAPPING_RULES)) \X (1..5) :
                    p <= Len(FIELD_MAPPING_RULES[r].patterns)}
\* A variant of PairBefore: the loops keep the last match instead of returning
\* at the first.
PairAfter(a, b) == a[1] > b[1] \/ (a[1] = b[1] /\ a[2] > b[2])

PairBefore(a, b) == a[1] < b[1] \/ (a[1] = b[1] /\ a[2] < b[2])

PatternAt(rp) == FIELD_MAPPING_RULES[rp[1]].patterns[rp[2]]

\* The pairs whose pattern re.search finds in the lowercased name.
MatchingPairs(field_name_lower) ==
    {rp \in AllRulePairs : Contains(field_name_lower, PatternAt(rp))}

\* The first pair of a non-empty set, in the order of the loops.
FirstPair(hits) == CHOOSE h \in hits : \A o \in hits : o = h \/ PairBefore(h, o)

\* What the loop returns at its first match.
NameMatch(rp, field_name_lower) ==
    [pubpub_field |-> FIELD_MAPPING_RULES[rp[1]].pubpub_field,
     confidence |-> IF PatternAt(rp) = field_name_lower THEN "high" ELSE "medium"]

\* A variant of SuggestFrom: the type fallback has no entry for email.
SuggestFromWithoutEmail(hits, field_name_lower, field_type) ==
        IF hits # {}
        THEN NameMatch(FirstPair(hits), field_name_lower)
        ELSE IF field_type = "multipleRecordLinks"
             THEN [pubpub_field |-> "relations", confidence |-> "medium"]
        ELSE IF field_type = "url"
             THEN [pubpub_field |-> "url", confidence |-> "medium"]
        ELSE NoMapping

SuggestFrom(hits, field_name_lower, field_type) ==
        IF hits # {}
        THEN NameMatch(FirstPair(hits), field_name_lower)
        ELSE IF field_type = "multipleRecordLinks"
             THEN [pubpub_field |-> "relations", confidence |-> "medium"]
        ELSE IF field_type = "url"
             THEN [pubpub_field |-> "url", confidence |-> "medium"]
        ELSE IF field_type = "email"
             THEN [pubpub_field |-> "email", confidence |-> "medium"]
        ELSE NoMapping

suggest_field_mapping(field_name, field_type) ==
    SuggestFrom(MatchingPairs(Lower(field_name)), Lower(field_name), field_type)

\* The proleptic Gregorian calendar of datetime.
IsLeapYear(y) == (y % 4 = 0 /\ y % 100 # 0) \/ y % 400 = 0
DaysInMonth(y, m) ==
    IF m = 2 THEN (IF IsLeapYear(y) THEN 29 ELSE 28)
    ELSE IF m \in {4, 6, 9, 11} THEN 30 ELSE 31

Dashes(s) == {i \in 1..Len(s) : s[i] = "-"}
FirstDash(s) == CHOOSE i \in Dashes(s) : \A j \in Dashes(s) : i <= j
LastDash(s) == CHOOSE i \in Dashes(s) : \A j \in Dashes(s) : j <= i
YearPart(s) == SubSeq(s, 1, FirstDash(s) - 1)
MonthPart(s) == SubSeq(s, FirstDash(s) + 1, LastDash(s) - 1)
DayPart(s) == SubSeq(s, LastDash(s) + 1, Len(s))

IsCalendarDate(y, m, d) == y >= 1 /\ m \in 1..12 /\ d \in 1..DaysInMonth(y, m)

\* datetime.strptime(s, "%Y-%m-%d") succeeds: four digits, one or two digits,
\* one or two digits, nothing else, and the date exists.
StrptimeAccepts(s) ==
    /\ Cardinality(Dashes(s)) = 2
    /\ Len(YearPart(s)) = 4 /\ AllDigits(YearPart(s))
    /\ Len(MonthPart(s)) \in 1..2 /\ AllDigits(MonthPart(s))
    /\ Len(DayPart(s)) \in 1..2 /\ AllDigits(DayPart(s))
    /\ IsCalendarDate(NumberOf(YearPart(s)), NumberOf(MonthPart(s)),
                      NumberOf(DayPart(s)))

\* datetime.isoformat() of a datetime without microseconds and without zone.
IsoFormat(y, m, d, time) ==
    Padded(y, 4) \o <<"-">> \o Padded(m, 2) \o <<"-">> \o Padded(d, 2)
        \o <<"T">> \o time
Midnight == <<"0","0",":","0","0",":","0","0">>

\* The date branch: strptime raises TypeError on a value that is no string and
\* ValueError on a string it cannot parse; the bare except returns the value.
DateOrValue(value) ==
    IF IsStr(value) /\ StrptimeAccepts(value.v)
    THEN Str(IsoFormat(NumberOf(YearPart(value.v)), NumberOf(MonthPart(value.v)),
                       NumberOf(DayPart(value.v)), Midnight))
    ELSE value

\* value.replace("Z", "+00:00")
RECURSIVE ReplaceZ(_)
ReplaceZ(s) ==
    IF s = <<>> THEN <<>>
    ELSE (IF Head(s) = "Z" THEN <<"+","0","0",":","0","0">> ELSE <<Head(s)>>)
         \o ReplaceZ(Tail(s))

\* YYYY-MM-DD with two-digit month and day, as fromisoformat wants it.
IsIsoDate(s) ==
    /\ Len(s) = 10 /\ s[5] = "-" /\ s[8] = "-"
    /\ AllDigits(SubSeq(s, 1, 4)) /\ AllDigits(SubSeq(s, 6, 7))
    /\ AllDigits(SubSeq(s, 9, 10))
    /\ IsCalendarDate(NumberOf(SubSeq(s, 1, 4)), NumberOf(SubSeq(s, 6, 7)),
                      NumberOf(SubSeq(s, 9, 10)))
\* HH:MM:SS
IsIsoTime(s) ==
    /\ Len(s) = 8 /\ s[3] = ":" /\ s[6] = ":"
    /\ AllDigits(SubSeq(s, 1, 2)) /\ AllDigits(SubSeq(s, 4, 5))
    /\ AllDigits(SubSeq(s, 7, 8))
    /\ NumberOf(SubSeq(s, 1, 2)) < 24 /\ NumberOf(SubSeq(s, 4, 5)) < 60
    /\ NumberOf(SubSeq(s, 7, 8)) < 60
UtcOffset == <<"+","0","0",":","0","0">>

\* datetime.fromisoformat(s) succeeds, for the forms the model covers: a date,
\* a date and a time, a date and a time and the offset +00:00.
FromIsoFormatAccepts(s) ==
    \/ IsIsoDate(s)
    \/ /\ Len(s) \in {19, 25}
       /\ IsIsoDate(SubSeq(s, 1, 10))
       /\ IsIsoTime(SubSeq(s, 12, 19))
       /\ Len(s) = 25 => SubSeq(s, 20, 25) = UtcOffset

\* fromisoformat(s).isoformat(): the separator becomes "T", a date gets midnight.
IsoOfIso(s) ==
    SubSeq(s, 1, 10) \o <<"T">>
        \o (IF Len(s) = 10 THEN Midnight ELSE SubSeq(s, 12, Len(s)))

\* The dateTime branch.
DateTimeOrValue(value) ==
    IF IsStr(value) /\ FromIsoFormatAccepts(ReplaceZ(value.v))
    THEN Str(IsoOfIso(ReplaceZ(value.v)))
    ELSE value

\* float(value) succeeds: a number, a boolean, or a string that is a decimal
\* numeral with an optional minus sign (the strings of the model are of this
\* form or hold a letter, a dash between digits, or nothing).
CanFloat(value) ==
    \/ IsNumber(value)
    \/ /\ IsStr(value)
       /\ Len(value.v) > 0
       /\ \/ AllDigits(value.v)
          \/ Len(value.v) > 1 /\ value.v[1] = "-" /\ AllDigits(Tail(value.v))
FloatOf(value) ==
    CASE value.t = "bool" -> Float(IF value.v THEN 1 ELSE 0)
      [] value.t \in {"int", "float"} -> Float(value.v)
      [] OTHER -> IF value.v[1] = "-" THEN Float(-NumberOf(Tail(value.v)))
                  ELSE Float(NumberOf(value.v))

\* An exception leaves format_field_value.
Raised == [t |-> "raise"]

\* A variant of NumberOrNone: float(value) outside try/except.
NumberOrRaise(value) == IF CanFloat(value) THEN FloatOf(value) ELSE Raised

\* The number branch: float(value), None when it raises.
NumberOrNone(value) == IF CanFloat(value) THEN FloatOf(value) ELSE None

\* [x] if x else []
SingletonIfTruthy(x) == IF Truthy(x) THEN List(<<x>>) ELSE List(<<>>)

format_field_value(value, field_type) ==
    IF IsNone(value) THEN None
    ELSE CASE field_type = "singleSelect" -> Str(PyStr(value))
      [] field_type = "multipleSelects" ->
            IF IsList(value) THEN List(StrEach(value.v))
            ELSE List(<<Str(PyStr(value))>>)
      [] field_type = "date" -> DateOrValue(value)
      [] field_type = "dateTime" -> DateTimeOrValue(value)
      [] field_type \in {"multilineText", "richText"} -> Str(PyStr(value))
      [] field_type = "checkbox" -> PyBool(value)
      [] field_type = "number" -> NumberOrNone(value)
      [] field_type = "formula" ->
            IF IsNumber(value) THEN value ELSE Str(PyStr(value))
      [] field_type = "multipleRecordLinks" ->
            IF IsList(value) THEN List(StrEach(value.v))
            ELSE IF Truthy(value) THEN List(<<Str(PyStr(value))>>) ELSE List(<<>>)
      [] field_type = "multipleLookupValues" ->
            IF IsList(value) THEN value ELSE SingletonIfTruthy(value)
      [] field_type \in {"url", "email"} -> Str(PyStr(value))
      [] OTHER -> value

\* datetime.now().strftime("%Y%m%d_%H%M%S"), `now` seconds after
\* 2025-01-01 00:00:00 (now < 60): the resolution is one second.
Timestamp(now) ==
    <<"2","0","2","5","0","1","0","1","_","0","0","0","0">>
        \o <<Digits[(now \div 10) + 1], Digits[(now % 10) + 1]>>

SlugChars == {LowerCase[i] : i \in 1..26} \cup {Digits[i] : i \in 1..10} \cup {"-"}

\* re.sub(r'[^a-z0-9-]', '', title.lower().replace(" ", "-"))
SpacesToDashes(s) == [i \in 1..Len(s) |-> IF s[i] = " " THEN "-" ELSE s[i]]

Slug(title) == Filter(SpacesToDashes(Lower(title)), SlugChars)

(***************************************************************************)
(* The sample data and the mappings file read by load_cached_data          *)
(***************************************************************************)
Pre == <<"P","r","e">>
Rev == <<"R","e","v">>
Arc == <<"A","r","c">>
RecA == <<"r","e","c","A">>
RecB == <<"r","e","c","B">>
RecC == <<"r","e","c","C">>
RecX == <<"r","e","c","X">>
Paper == <<"P","a","p","e","r">>
MyPaper == <<"M","y"," ","P","a","p","e","r">>

\* sample_data.items(): the tables in the order of the pickle.  Arc has no entry
\* in the mappings file.
TableOrder == <<Pre, Rev, Arc>>
MappedTables == {Pre, Rev}

\* mappings[table]["fields"]: the field descriptions, in declaration order.
SchemaFields == <<
    [id |-> "fldName", name |-> <<"N","a","m","e">>, type |-> "singleLineText"],
    [id |-> "fldRel", name |-> <<"R","e","l","a","t","e","d">>,
     type |-> "multipleRecordLinks"]>>

\* The same table with its link field named "Authors".
SchemaFieldsAuthors == <<
    [id |-> "fldName", name |-> <<"N","a","m","e">>, type |-> "singleLineText"],
    [id |-> "fldRel", name |-> <<"A","u","t","h","o","r","s">>,
     type |-> "multipleRecordLinks"]>>

\* mappings[table]["field_mappings"] as AirtableSchemaAnalyzer.suggest_mappings
\* writes it for the two fields.
CachedFieldMappings ==
    [f \in {"fldName", "fldRel"} |->
        IF f = "fldName" THEN [pubpub_field |-> "title", confidence |-> "medium"]
        ELSE [pubpub_field |-> "relations", confidence |-> "medium"]]
EmptyFieldMappings == [f \in {} |-> NoMapping]

\* The mappings files of the model: with "fields" and cached field mappings,
\* with "fields" and no cached mapping (the suggester is asked), the file as
\* the analyzer writes it, which has no "fields" key, and a file whose link
\* field has a name that a name rule other than the one for relations matches.
MappingFiles == {
    [fields |-> SchemaFields, field_mappings |-> CachedFieldMappings],
    [fields |-> SchemaFields, field_mappings |-> EmptyFieldMappings],
    [fields |-> <<>>, field_mappings |-> CachedFieldMappings],
    [fields |-> SchemaFieldsAuthors, field_mappings |-> EmptyFieldMappings]}

Rec(id, name, links) == [id |-> id, fields |-> [f \in {"fldName", "fldRel"} |->
                            IF f = "fldName" THEN name ELSE links]]

SampleDataSets ==
    {[t \in {Pre, Rev, Arc} |->
        IF t = Pre THEN <<Rec(RecA, Str(Paper), la), Rec(RecB, nb, lb)>>
        ELSE IF t = Rev THEN <<Rec(RecC, nc, lc)>>
        ELSE <<Rec(RecX, Str(Paper), None)>>] :
      la \in {None, List(<<Str(RecB)>>), List(<<Str(RecB), Str(RecX)>>),
              List(<<Str(RecC), Str(RecB)>>)},
      nb \in {Str(Paper), None},
      lb \in {None, List(<<Str(RecA)>>)},
      nc \in {Str(Paper), Str(MyPaper)},
      lc \in {None, List(<<Str(RecX), Str(RecA)>>)}}

\* The ids the target gives to the pubs it creates.
PubId(n) == <<"p","u","b">> \o <<Digits[n + 1]>>

(***************************************************************************)
(* create_test_pubs.py: state of one run of main()                         *)
(***************************************************************************)
TITLE_CANDIDATES == {<<"N","a","m","e">>, <<"T","i","t","l","e">>,
                     <<"S","u","b","j","e","c","t">>, <<"I","D">>}

\* record.get("fields", {}).get(field_id)
FieldOf(record, field_id) ==
    IF field_id \in DOMAIN record.fields THEN record.fields[field_id] ELSE None

\* table_mappings.get(field_id), and suggest_field_mapping when it has no entry.
MappingFor(field_mappings, field_info) ==
    IF field_info.id \in DOMAIN field_mappings
       /\ field_mappings[field_info.id] # NoMapping
    THEN field_mappings[field_info.id]
    ELSE suggest_field_mapping(field_info.name, field_info.type)

\* The body of the first loop of create_pub_from_record for one field with a
\* value and a mapping: acc is [values, relations, field_mappings].
MapField(acc, field_info, mapping, formatted_value) ==
    [values |->
        IF mapping.pubpub_field = "relations" THEN acc.values
        ELSE (mapping.pubpub_field :> formatted_value) @@ acc.values,
     relations |->
        IF mapping.pubpub_field = "relations"
        THEN acc.relations \o (IF IsList(formatted_value)
                               THEN formatted_value.v
                               ELSE <<formatted_value>>)
        ELSE acc.relations,
     field_mappings |-> (field_info.id :> mapping) @@ acc.field_mappings]

FirstPassStep(acc, field_info, field_value, mapping) ==
    IF IsNone(field_value) \/ mapping = NoMapping THEN acc
    ELSE MapField(acc, field_info, mapping,
                  format_field_value(field_value, field_info.type))

\* The first loop of create_pub_from_record over mappings[table]["fields"].
RECURSIVE FirstPass(_, _, _, _)
FirstPass(fields, record, i, acc) ==
    IF i > Len(fields) THEN acc
    ELSE FirstPass(fields, record, i + 1,
                   FirstPassStep(acc, fields[i], FieldOf(record, fields[i].id),
                                 MappingFor(acc.field_mappings, fields[i])))

\* The fields that are title candidates and hold a non-empty value.
TitleCandidates(fields, record) ==
    {i \in 1..Len(fields) :
        /\ fields[i].name \in TITLE_CANDIDATES
        /\ Truthy(FieldOf(record, fields[i].id))}

Least(S) == CHOOSE i \in S : \A j \in S : i <= j

\* The title before the timestamp is added: the mapped title, else the first
\* non-empty candidate field in the order of the fields, else the synthesized one.
TitleFrom(mapped, cands, table_name, fields, record) ==
    IF Truthy(mapped) THEN mapped.v
    ELSE IF cands # {} THEN FieldOf(record, fields[Least(cands)].id).v
    ELSE table_name \o <<" ","R","e","c","o","r","d"," ">> \o record.id

ResolveTitle(table_name, fields, record, values) ==
    TitleFrom(IF "title" \in DOMAIN values THEN values["title"] ELSE None,
              TitleCandidates(fields, record), table_name, fields, record)

\* title = f"{title} [{timestamp}]"
StampTitle(title, now) == title \o <<" ","[">> \o Timestamp(now) \o <<"]">>

\* The request create_pub_from_record posts and the relations it keeps.  (The
\* description and the pubTypeId of the request are not modelled: nothing that
\* follows reads them.)
PubData(title, pass) ==
    [title |-> title,
     slug |-> Slug(title),
     values |-> ("title" :> Str(title)) @@ pass.values,
     relations |-> pass.relations,
     field_mappings |-> pass.field_mappings]

PubRequest(table_name, fields, record, now, pass) ==
    PubData(StampTitle(ResolveTitle(table_name, fields, record, pass.values), now),
            pass)

BuildPub(table_name, record, now) ==
    PubRequest(table_name, mappings[table_name].fields, record, now,
               FirstPass(mappings[table_name].fields, record, 1,
                         [values |-> [k \in {} |-> None], relations |-> <<>>,
                          field_mappings |-> mappings[table_name].field_mappings]))

\* A variant of TablesExhausted: the loop is left after the first table.
TablesExhaustedEarly(i) == i > 1

\* The for loop over sample_data.items() has ended.
TablesExhausted(i) == i > Len(TableOrder)

\* A variant of CreateResult: the pub data is returned although the POST failed.
CreateResultKeepFailed(ok, pub, relations) ==
    [ok |-> TRUE, pub |-> pub, relations |-> relations]

\* What create_pub_from_record returns after the POST: the pub and the relations
\* when the target answered with a pub, None (ok = FALSE) when the request raised.
CreateResult(ok, pub, relations) ==
    [ok |-> ok, pub |-> pub, relations |-> relations]

\* The body update_pub_relations sends: one relatedPubId per element of
\* related_ids, as given.
RelationsData(related_ids) == related_ids

\* get_pub_types(): main() returns when the listing fails or is empty.
GetPubTypes ==
    /\ mpc = "start"
    /\ \/ /\ mpc' = "create"
          /\ UNCHANGED failures
       \/ /\ failures < MaxFailures
          /\ failures' = failures + 1
          /\ mpc' = "aborted"
    /\ UNCHANGED <<mappings, sample_data, ti, ri, li, clock, created_pubs,
                   relations_to_update, posts, patches>>
    /\ UNCHANGED <<cfgVars, fnVars, dryVars, mockVars>>

\* The id the target gives to the next pub it accepts: it has given one to
\* every POST it accepted so far, in this run of main() and in the one before.
NextPubId == PubId(Cardinality({i \in 1..Len(posts) : posts[i].ok}) + 1)

\* One iteration of the inner loop of main(): create_pub_from_record and the
\* bookkeeping of its result.  `tick` is the time elapsed since the last reading
\* of the clock, `ok` the target's answer to the POST.
CreatePubFromRecord ==
    /\ mpc = "create"
    /\ ~TablesExhausted(ti)
    /\ TableOrder[ti] \in DOMAIN mappings
    /\ ri <= Len(sample_data[TableOrder[ti]])
    /\ \E tick \in 0..1, ok \in BOOLEAN :
         /\ clock + tick <= MaxClock
         /\ ~ok => failures < MaxFailures
         /\ \E req \in {BuildPub(TableOrder[ti], sample_data[TableOrder[ti]][ri],
                                 clock + tick)} :
            \E result \in {CreateResult(ok, [id |-> NextPubId,
                                             title |-> req.title, slug |-> req.slug],
                                        req.relations)} :
                /\ clock' = clock + tick
                /\ failures' = IF ok THEN failures ELSE failures + 1
                /\ mappings' = [mappings EXCEPT
                                  ![TableOrder[ti]].field_mappings = req.field_mappings]
                /\ posts' = Append(posts,
                                [src |-> sample_data[TableOrder[ti]][ri].id,
                                 table |-> TableOrder[ti],
                                 title |-> req.title, slug |-> req.slug,
                                 values |-> req.values, ok |-> ok,
                                 id |-> IF ok THEN NextPubId
                                        ELSE <<>>])
                /\ created_pubs' = IF result.ok
                                  THEN Append(created_pubs, result.pub)
                                  ELSE created_pubs
                /\ relations_to_update' =
                       IF result.ok /\ result.relations # <<>>
                       THEN Append(relations_to_update,
                                   <<result.pub.id, result.relations>>)
                       ELSE relations_to_update
    /\ ri' = ri + 1
    /\ UNCHANGED <<mpc, sample_data, ti, li, patches>>
    /\ UNCHANGED <<cfgVars, fnVars, dryVars, mockVars>>

\* The outer loop moves on: the table has no entry in mappings, or its records
\* are all processed.
NextTable ==
    /\ mpc = "create"
    /\ ~TablesExhausted(ti)
    /\ \/ TableOrder[ti] \notin DOMAIN mappings
       \/ ri > Len(sample_data[TableOrder[ti]])
    /\ ti' = ti + 1
    /\ ri' = 1
    /\ UNCHANGED <<mpc, mappings, sample_data, li, clock, failures, created_pubs,
                   relations_to_update, posts, patches>>
    /\ UNCHANGED <<cfgVars, fnVars, dryVars, mockVars>>

\* The create loop is over: main() goes on to the relations.
BeginLink ==
    /\ mpc = "create"
    /\ TablesExhausted(ti)
    /\ mpc' = "link"
    /\ UNCHANGED <<mappings, sample_data, ti, ri, li, clock, failures, created_pubs,
                   relations_to_update, posts, patches>>
    /\ UNCHANGED <<cfgVars, fnVars, dryVars, mockVars>>

\* One iteration of the second loop of main(): update_pub_relations.
UpdatePubRelations ==
    /\ mpc = "link"
    /\ li <= Len(relations_to_update)
    /\ \E ok \in BOOLEAN :
         /\ ~ok => failures < MaxFailures
         /\ failures' = IF ok THEN failures ELSE failures + 1
         /\ patches' = Append(patches,
                          [pub_id |-> relations_to_update[li][1],
                           related |-> RelationsData(relations_to_update[li][2]),
                           ok |-> ok])
    /\ li' = li + 1
    /\ UNCHANGED <<mpc, mappings, sample_data, ti, ri, clock, created_pubs,
                   relations_to_update, posts>>
    /\ UNCHANGED <<cfgVars, fnVars, dryVars, mockVars>>

\* The relations are done; what follows in main() only reads the target.
FinishMigrate ==
    /\ mpc = "link"
    /\ li > Len(relations_to_update)
    /\ mpc' = "done"
    /\ UNCHANGED <<mappings, sample_data, ti, ri, li, clock, failures, created_pubs,
                   relations_to_update, posts, patches>>
    /\ UNCHANGED <<cfgVars, fnVars, dryVars, mockVars>>

\* load_cached_data reads the mappings file again: the suggestions the run
\* before added to table_mappings in memory were never written to it.  (A file
\* of the model holds the analyzer's field mappings or none.)
ReloadedMappings(entry) ==
    [entry EXCEPT !.field_mappings = IF @ = CachedFieldMappings
                                     THEN CachedFieldMappings
                                     ELSE EmptyFieldMappings]

\* create_test_pubs.py is run a second time over the same files, against the
\* target as the first run left it.
MigrateAgain ==
    /\ mpc = "done"
    /\ run = 1
    /\ run' = 2
    /\ mpc' = "start"
    /\ mappings' = [t \in DOMAIN mappings |-> ReloadedMappings(mappings[t])]
    /\ ti' = 1 /\ ri' = 1 /\ li' = 1
    /\ created_pubs' = <<>>
    /\ relations_to_update' = <<>>
    /\ UNCHANGED <<sample_data, clock, failures, posts, patches>>
    /\ UNCHANGED <<engine, tpc, tix, source, config, tgtTypes, tgtStages, tgtFields,
                   existing_types, existing_stages, type_id_mapping,
                   stage_id_mapping, calls, afterFirst>>
    /\ UNCHANGED <<fnVars, dryVars, mockVars>>

(***************************************************************************)
(* improved_transfer.py and transfer_config_and_data.py: the configuration *)
(* transfer.  engine says which script runs: "improved" looks the target's *)
(* types and stages up by name before it creates any, "basic" does not and *)
(* also transfers the fields.                                              *)
(***************************************************************************)
EmptyMap == [k \in {} |-> <<>>]
NoCounts == [types |-> -1, stages |-> -1]

\* Ids: <<kind, n>>.  "st"/"ss" are source types and stages, "tt"/"ts" are the
\* ids the target gives to the types and stages it holds.
SourceConfigs ==
    {[pub_types |-> <<[id |-> <<"st", 1>>, name |-> "Preprint"],
                      [id |-> <<"st", 2>>, name |-> n2]>>,
      stages |-> <<[id |-> <<"ss", 1>>, name |-> "Draft", moveConstraints |-> mc1],
                   [id |-> <<"ss", 2>>, name |-> "Review", moveConstraints |-> mc2],
                   [id |-> <<"ss", 3>>, name |-> "Published",
                    moveConstraints |-> <<>>]>>,
      fields |-> <<[name |-> "doi", pubType |-> <<"st", 1>>],
                   [name |-> "note", pubType |-> <<>>],
                   [name |-> "score", pubType |-> <<"st", 2>>]>>] :
     n2 \in {"Review", "Preprint"},
     mc1 \in {<<<<"ss", 2>>>>, <<<<"ss", 3>>, <<"ss", 2>>>>},
     mc2 \in {<<>>, <<<<"ss", 1>>>>, <<<<"ss", 1>>, <<"ss", 3>>>>}}

InitialTargetTypes == {<<>>, <<[id |-> <<"tt", 1>>, name |-> "Preprint"]>>}
InitialTargetStages ==
    {<<>>, <<[id |-> <<"ts", 1>>, name |-> "Draft", moveConstraints |-> <<>>]>>}

\* {t["name"]: t for t in listing}, kept as name -> id: the last one of a name wins.
ExistingByName(listing) ==
    [n \in {listing[i].name : i \in 1..Len(listing)} |->
        listing[CHOOSE i \in 1..Len(listing) :
                    /\ listing[i].name = n
                    /\ \A j \in 1..Len(listing) : listing[j].name = n => j <= i].id]

Call(kind, src, name, target, ids, ok) ==
    [kind |-> kind, src |-> src, name |-> name, target |-> target, ids |-> ids,
     ok |-> ok]

\* The phases of main(), in the order it calls them.
ImprovedNextPhase(phase) ==
    CASE phase = "access" -> "fetch"
      [] phase = "fetch" -> "list_types"
      [] phase = "list_types" -> "types"
      [] phase = "types" -> "list_stages"
      [] phase = "list_stages" -> "stages"
      [] phase = "stages" -> "constraints"
      [] OTHER -> "done"

\* A variant of BasicNextPhase: main() transfers the fields before the stages.
BasicNextPhaseFieldsFirst(phase) ==
    CASE phase = "fetch" -> "types"
      [] phase = "types" -> "fields"
      [] phase = "fields" -> "stages"
      [] phase = "stages" -> "constraints"
      [] OTHER -> "done"

BasicNextPhase(phase) ==
    CASE phase = "fetch" -> "types"
      [] phase = "types" -> "stages"
      [] phase = "stages" -> "constraints"
      [] phase = "constraints" -> "fields"
      [] OTHER -> "done"

NextPhase(phase) ==
    IF engine = "improved" THEN ImprovedNextPhase(phase) ELSE BasicNextPhase(phase)

\* The loops `for x in items` have ended.
TypePassDone(i, pub_types) == i > Len(pub_types)
\* A variant of StagePassDone: the create loop stops one stage short.
StagePassDoneEarly(i, stages) == i > Len(stages) - 1

StagePassDone(i, stages) == i > Len(stages)
ConstraintPassDone(i, stages) == i > Len(stages)
FieldPassDone(i, fields) == i > Len(fields)

\* test_api_access for the source and for the target (improved): main() returns
\* when either fails.
TestApiAccess ==
    /\ engine = "improved"
    /\ tpc = "access"
    /\ \/ /\ tpc' = NextPhase("access")
          /\ UNCHANGED failures
       \/ /\ failures < MaxFailures
          /\ failures' = failures + 1
          /\ tpc' = "aborted"
    /\ UNCHANGED <<engine, run, tix, source, config, tgtTypes, tgtStages, tgtFields,
                   existing_types, existing_stages, type_id_mapping,
                   stage_id_mapping, calls, afterFirst>>
    /\ UNCHANGED <<migRest, fnVars, dryVars, mockVars>>

\* get_source_configuration: a listing that cannot be read is taken as empty.
\* (basic: clear_target_configuration follows; it only reads the target.)
FetchedConfig(okTypes, okStages, okFields) ==
    [pub_types |-> IF okTypes THEN source.pub_types ELSE <<>>,
     stages |-> IF okStages THEN source.stages ELSE <<>>,
     fields |-> IF okFields /\ engine = "basic" THEN source.fields ELSE <<>>]

FailedCount(okTypes, okStages, okFields) ==
    (IF okTypes THEN 0 ELSE 1) + (IF okStages THEN 0 ELSE 1)
        + (IF okFields THEN 0 ELSE 1)

GetSourceConfiguration ==
    /\ tpc = "fetch"
    /\ \E okTypes \in BOOLEAN, okStages \in BOOLEAN, okFields \in BOOLEAN :
         /\ engine = "improved" => okFields
         /\ failures + FailedCount(okTypes, okStages, okFields) <= MaxFailures
         /\ failures' = failures + FailedCount(okTypes, okStages, okFields)
         /\ config' = FetchedConfig(okTypes, okStages, okFields)
    /\ tpc' = NextPhase("fetch")
    /\ tix' = 1
    /\ UNCHANGED <<engine, run, source, tgtTypes, tgtStages, tgtFields,
                   existing_types, existing_stages, type_id_mapping,
                   stage_id_mapping, calls, afterFirst>>
    /\ UNCHANGED <<migRest, fnVars, dryVars, mockVars>>

\* improved, transfer_pub_types: the GET of the target's types; when it fails
\* target_types stays [].
ListTargetTypes ==
    /\ engine = "improved"
    /\ tpc = "list_types"
    /\ \/ /\ existing_types' = ExistingByName(tgtTypes)
          /\ UNCHANGED failures
       \/ /\ failures < MaxFailures
          /\ failures' = failures + 1
          /\ existing_types' = EmptyMap
    /\ tpc' = NextPhase("list_types")
    /\ tix' = 1
    /\ UNCHANGED <<engine, run, source, config, tgtTypes, tgtStages, tgtFields,
                   existing_stages, type_id_mapping, stage_id_mapping, calls,
                   afterFirst>>
    /\ UNCHANGED <<migRest, fnVars, dryVars, mockVars>>

\* improved, transfer_stages: the GET of the target's stages.
ListTargetStages ==
    /\ engine = "improved"
    /\ tpc = "list_stages"
    /\ \/ /\ existing_stages' = ExistingByName(tgtStages)
          /\ UNCHANGED failures
       \/ /\ failures < MaxFailures
          /\ failures' = failures + 1
          /\ existing_stages' = EmptyMap
    /\ tpc' = NextPhase("list_stages")
    /\ tix' = 1
    /\ UNCHANGED <<engine, run, source, config, tgtTypes, tgtStages, tgtFields,
                   existing_types, type_id_mapping, stage_id_mapping, calls,
                   afterFirst>>
    /\ UNCHANGED <<migRest, fnVars, dryVars, mockVars>>

\* The name is among the objects listed at the start (improved only: basic has
\* no such check).
AlreadyExists(name, existing) == engine = "improved" /\ name \in DOMAIN existing

\* A variant of PostPubType: the id of a type is mapped even when the POST failed.
PostPubTypeMapFailed(pub_type) ==
    \E ok \in BOOLEAN :
      /\ ~ok => failures < MaxFailures
      /\ failures' = IF ok THEN failures ELSE failures + 1
      /\ calls' = Append(calls, Call("create_type", pub_type.id, pub_type.name,
                                     <<>>, <<>>, ok))
      /\ tgtTypes' = IF ok
                     THEN Append(tgtTypes, [id |-> <<"tt", Len(tgtTypes) + 1>>,
                                            name |-> pub_type.name])
                     ELSE tgtTypes
      /\ type_id_mapping' =
            (pub_type.id :> <<"tt", Len(tgtTypes) + 1>>) @@ type_id_mapping

\* POST pub-types: on 200 the target holds a new type and its id is mapped.
PostPubType(pub_type) ==
    \E ok \in BOOLEAN :
      /\ ~ok => failures < MaxFailures
      /\ failures' = IF ok THEN failures ELSE failures + 1
      /\ calls' = Append(calls, Call("create_type", pub_type.id, pub_type.name,
                                     <<>>, <<>>, ok))
      /\ tgtTypes' = IF ok
                     THEN Append(tgtTypes, [id |-> <<"tt", Len(tgtTypes) + 1>>,
                                            name |-> pub_type.name])
                     ELSE tgtTypes
      /\ type_id_mapping' =
            IF ok THEN (pub_type.id :> <<"tt", Len(tgtTypes) + 1>>) @@ type_id_mapping
            ELSE type_id_mapping

\* One iteration of the loop of transfer_pub_types.
TransferPubType ==
    /\ tpc = "types"
    /\ ~TypePassDone(tix, config.pub_types)
    /\ \/ /\ AlreadyExists(config.pub_types[tix].name, existing_types)
          /\ type_id_mapping' =
               (config.pub_types[tix].id :> existing_types[config.pub_types[tix].name])
                   @@ type_id_mapping
          /\ UNCHANGED <<failures, calls, tgtTypes>>
       \/ /\ ~AlreadyExists(config.pub_types[tix].name, existing_types)
          /\ PostPubType(config.pub_types[tix])
    /\ tix' = tix + 1
    /\ UNCHANGED <<engine, run, tpc, source, config, tgtStages, tgtFields,
                   existing_types, existing_stages, stage_id_mapping, afterFirst>>
    /\ UNCHANGED <<migRest, fnVars, dryVars, mockVars>>

TypesDone ==
    /\ tpc = "types"
    /\ TypePassDone(tix, config.pub_types)
    /\ tpc' = NextPhase("types")
    /\ tix' = 1
    /\ UNCHANGED <<engine, run, source, config, tgtTypes, tgtStages, tgtFields,
                   existing_types, existing_stages, type_id_mapping,
                   stage_id_mapping, calls, afterFirst, failures>>
    /\ UNCHANGED <<migRest, fnVars, dryVars, mockVars>>

\* POST stages: on 200 the target holds a new stage and its id is mapped.
PostStage(stage) ==
    \E ok \in BOOLEAN :
      /\ ~ok => failures < MaxFailures
      /\ failures' = IF ok THEN failures ELSE failures + 1
      /\ calls' = Append(calls, Call("create_stage", stage.id, stage.name,
                                     <<>>, <<>>, ok))
      /\ tgtStages' = IF ok
                      THEN Append(tgtStages, [id |-> <<"ts", Len(tgtStages) + 1>>,
                                              name |-> stage.name,
                                              moveConstraints |-> <<>>])
                      ELSE tgtStages
      /\ stage_id_mapping' =
            IF ok THEN (stage.id :> <<"ts", Len(tgtStages) + 1>>) @@ stage_id_mapping
            ELSE stage_id_mapping

\* One iteration of the first loop of transfer_stages.
TransferStage ==
    /\ tpc = "stages"
    /\ ~StagePassDone(tix, config.stages)
    /\ \/ /\ AlreadyExists(config.stages[tix].name, existing_stages)
          /\ stage_id_mapping' =
               (config.stages[tix].id :> existing_stages[config.stages[tix].name])
                   @@ stage_id_mapping
          /\ UNCHANGED <<failures, calls, tgtStages>>
       \/ /\ ~AlreadyExists(config.stages[tix].name, existing_stages)
          /\ PostStage(config.stages[tix])
    /\ tix' = tix + 1
    /\ UNCHANGED <<engine, run, tpc, source, config, tgtTypes, tgtFields,
                   existing_types, existing_stages, type_id_mapping, afterFirst>>
    /\ UNCHANGED <<migRest, fnVars, dryVars, mockVars>>

\* The stages are created.  improved calls configure_move_constraints only when
\* stage_id_mapping is not empty; basic always goes on to its second loop.
StagesDone ==
    /\ tpc = "stages"
    /\ StagePassDone(tix, config.stages)
    /\ tpc' = IF engine = "improved" /\ DOMAIN stage_id_mapping = {}
              THEN NextPhase("constraints")
              ELSE NextPhase("stages")
    /\ tix' = 1
    /\ UNCHANGED <<engine, run, source, config, tgtTypes, tgtStages, tgtFields,
                   existing_types, existing_stages, type_id_mapping,
                   stage_id_mapping, calls, afterFirst, failures>>
    /\ UNCHANGED <<migRest, fnVars, dryVars, mockVars>>

\* A variant of MappedConstraints: the list ends at the first constraint whose
\* stage has no target id.
RECURSIVE MappedConstraintsUntilMissing(_, _)
MappedConstraintsUntilMissing(moveConstraints, mapping) ==
    IF moveConstraints = <<>> THEN <<>>
    ELSE IF Head(moveConstraints) \in DOMAIN mapping
         THEN <<mapping[Head(moveConstraints)]>>
              \o MappedConstraintsUntilMissing(Tail(moveConstraints), mapping)
         ELSE <<>>

\* A variant of MappedConstraints: the source id of a mapped constraint is sent.
RECURSIVE RawConstraints(_, _)
RawConstraints(moveConstraints, mapping) ==
    IF moveConstraints = <<>> THEN <<>>
    ELSE (IF Head(moveConstraints) \in DOMAIN mapping
          THEN <<Head(moveConstraints)>> ELSE <<>>)
         \o RawConstraints(Tail(moveConstraints), mapping)

\* The list the constraint pass builds for one stage: the target id of every
\* constraint that has one, in order; the others are dropped with a warning.
RECURSIVE MappedConstraints(_, _)
MappedConstraints(moveConstraints, mapping) ==
    IF moveConstraints = <<>> THEN <<>>
    ELSE (IF Head(moveConstraints) \in DOMAIN mapping
          THEN <<mapping[Head(moveConstraints)]>> ELSE <<>>)
         \o MappedConstraints(Tail(moveConstraints), mapping)

\* stage_id_mapping.get(source_id) finds a target id for a stage with constraints.
HasConstraintTarget(stage, mapping) ==
    stage.moveConstraints # <<>> /\ stage.id \in DOMAIN mapping

\* The target stage with the constraints of a successful PUT.
WithConstraints(stages, target_id, ids) ==
    [i \in 1..Len(stages) |->
        IF stages[i].id = target_id
        THEN [stages[i] EXCEPT !.moveConstraints = ids]
        ELSE stages[i]]

\* PUT stages/<target_id>/move-constraints
PutMoveConstraints(stage, target_id, ids) ==
    \E ok \in BOOLEAN :
      /\ ~ok => failures < MaxFailures
      /\ failures' = IF ok THEN failures ELSE failures + 1
      /\ calls' = Append(calls, Call("set_constraints", stage.id, stage.name,
                                     target_id, ids, ok))
      /\ tgtStages' = IF ok THEN WithConstraints(tgtStages, target_id, ids)
                      ELSE tgtStages

\* One iteration of the move-constraint loop (configure_move_constraints in
\* improved, the second loop of transfer_stages in basic).
ConfigureMoveConstraints ==
    /\ tpc = "constraints"
    /\ ~ConstraintPassDone(tix, config.stages)
    /\ \/ /\ HasConstraintTarget(config.stages[tix], stage_id_mapping)
          /\ MappedConstraints(config.stages[tix].moveConstraints,
                               stage_id_mapping) # <<>>
          /\ PutMoveConstraints(config.stages[tix],
                                stage_id_mapping[config.stages[tix].id],
                                MappedConstraints(config.stages[tix].moveConstraints,
                                                  stage_id_mapping))
       \/ /\ \/ ~HasConstraintTarget(config.stages[tix], stage_id_mapping)
             \/ MappedConstraints(config.stages[tix].moveConstraints,
                                  stage_id_mapping) = <<>>
          /\ UNCHANGED <<failures, calls, tgtStages>>
    /\ tix' = tix + 1
    /\ UNCHANGED <<engine, run, tpc, source, config, tgtTypes, tgtFields,
                   existing_types, existing_stages, type_id_mapping,
                   stage_id_mapping, afterFirst>>
    /\ UNCHANGED <<migRest, fnVars, dryVars, mockVars>>

ConstraintsDone ==
    /\ tpc = "constraints"
    /\ ConstraintPassDone(tix, config.stages)
    /\ tpc' = NextPhase("constraints")
    /\ tix' = 1
    /\ UNCHANGED <<engine, run, source, config, tgtTypes, tgtStages, tgtFields,
                   existing_types, existing_stages, type_id_mapping,
                   stage_id_mapping, calls, afterFirst, failures>>
    /\ UNCHANGED <<migRest, fnVars, dryVars, mockVars>>

\* basic, transfer_fields: a field is posted when it has a pubType and that
\* source type has a target id.
FieldIsTransferable(field, mapping) ==
    field.pubType # <<>> /\ field.pubType \in DOMAIN mapping

PostField(field, target_type) ==
    \E ok \in BOOLEAN :
      /\ ~ok => failures < MaxFailures
      /\ failures' = IF ok THEN failures ELSE failures + 1
      /\ calls' = Append(calls, Call("create_field", field.pubType, field.name,
                                     target_type, <<>>, ok))
      /\ tgtFields' = IF ok
                      THEN Append(tgtFields, [name |-> field.name,
                                              pubType |-> target_type])
                      ELSE tgtFields

\* One iteration of the loop of transfer_fields.
TransferField ==
    /\ engine = "basic"
    /\ tpc = "fields"
    /\ ~FieldPassDone(tix, config.fields)
    /\ \/ /\ FieldIsTransferable(config.fields[tix], type_id_mapping)
          /\ PostField(config.fields[tix], type_id_mapping[config.fields[tix].pubType])
       \/ /\ ~FieldIsTransferable(config.fields[tix], type_id_mapping)
          /\ UNCHANGED <<failures, calls, tgtFields>>
    /\ tix' = tix + 1
    /\ UNCHANGED <<engine, run, tpc, source, config, tgtTypes, tgtStages,
                   existing_types, existing_stages, type_id_mapping,
                   stage_id_mapping, afterFirst>>
    /\ UNCHANGED <<migRest, fnVars, dryVars, mockVars>>

FieldsDone ==
    /\ engine = "basic"
    /\ tpc = "fields"
    /\ FieldPassDone(tix, config.fields)
    /\ tpc' = NextPhase("fields")
    /\ tix' = 1
    /\ UNCHANGED <<engine, run, source, config, tgtTypes, tgtStages, tgtFields,
                   existing_types, existing_stages, type_id_mapping,
                   stage_id_mapping, calls, afterFirst, failures>>
    /\ UNCHANGED <<migRest, fnVars, dryVars, mockVars>>

FirstPhase == IF engine = "improved" THEN "access" ELSE "fetch"

\* main() is started again once the first run has written its report: the
\* script's own state starts afresh, the target is as the first run left it.
RunAgain ==
    /\ tpc = "done"
    /\ run = 1
    /\ run' = 2
    /\ afterFirst' = [types |-> Len(tgtTypes), stages |-> Len(tgtStages)]
    /\ tpc' = FirstPhase
    /\ tix' = 1
    /\ config' = [pub_types |-> <<>>, stages |-> <<>>, fields |-> <<>>]
    /\ existing_types' = EmptyMap
    /\ existing_stages' = EmptyMap
    /\ type_id_mapping' = EmptyMap
    /\ stage_id_mapping' = EmptyMap
    /\ calls' = <<>>
    /\ UNCHANGED <<engine, source, tgtTypes, tgtStages, tgtFields, failures>>
    /\ UNCHANGED <<migRest, fnVars, dryVars, mockVars>>

(***************************************************************************)
(* Specifications                                                          *)
(***************************************************************************)
\* The transfer scripts are not running.
IdleTransfer ==
    /\ engine = "basic" /\ run = 1 /\ tpc = "done" /\ tix = 1
    /\ source = [pub_types |-> <<>>, stages |-> <<>>, fields |-> <<>>]
    /\ config = [pub_types |-> <<>>, stages |-> <<>>, fields |-> <<>>]
    /\ tgtTypes = <<>> /\ tgtStages = <<>> /\ tgtFields = <<>>
    /\ existing_types = EmptyMap /\ existing_stages = EmptyMap
    /\ type_id_mapping = EmptyMap /\ stage_id_mapping = EmptyMap
    /\ calls = <<>>
    /\ afterFirst = NoCounts

\* No helper has been called on its own.
NoCall == [fn |-> "none"]
IdleFunctions == fcall = NoCall

\* No PubPubAPI object is in use.
NothingReturned == [kind |-> "none"]
IdleDryRun ==
    /\ dry_run = FALSE /\ api_calls = <<>> /\ requests_sent = <<>>
    /\ returned = NothingReturned

\* pubpub_dryrun.py is not running.
IdleMock ==
    /\ dpc = "exited" /\ mock_data = <<>> /\ pix = 1 /\ dclock = 0
    /\ results = [community |-> [k \in {} |-> None], collections |-> <<>>,
                  publications |-> <<>>, attributions |-> <<>>,
                  mock_calls |-> <<>>, errors |-> <<>>]
    /\ saved = FALSE
    /\ exit_status = 0

\* create_test_pubs.py is not running.
IdleMigrate ==
    /\ mpc = "done"
    /\ mappings = [t \in {} |-> <<>>]
    /\ sample_data = [t \in {} |-> <<>>]
    /\ ti = 1 /\ ri = 1 /\ li = 1
    /\ clock = 0
    /\ created_pubs = <<>>
    /\ relations_to_update = <<>>
    /\ posts = <<>>
    /\ patches = <<>>

InitTransfer ==
    /\ IdleMock
    /\ IdleMigrate
    /\ IdleFunctions
    /\ IdleDryRun
    /\ failures = 0
    /\ engine \in {"improved", "basic"}
    /\ run = 1
    /\ tpc = FirstPhase
    /\ tix = 1
    /\ source \in SourceConfigs
    /\ config = [pub_types |-> <<>>, stages |-> <<>>, fields |-> <<>>]
    /\ tgtTypes \in InitialTargetTypes
    /\ tgtStages \in InitialTargetStages
    /\ tgtFields = <<>>
    /\ existing_types = EmptyMap /\ existing_stages = EmptyMap
    /\ type_id_mapping = EmptyMap /\ stage_id_mapping = EmptyMap
    /\ calls = <<>>
    /\ afterFirst = NoCounts

NextTransfer ==
    \/ TestApiAccess
    \/ GetSourceConfiguration
    \/ ListTargetTypes
    \/ TransferPubType
    \/ TypesDone
    \/ ListTargetStages
    \/ TransferStage
    \/ StagesDone
    \/ ConfigureMoveConstraints
    \/ ConstraintsDone
    \/ TransferField
    \/ FieldsDone
    \/ RunAgain

SpecTransfer == InitTransfer /\ [][NextTransfer]_vars

InitMigrate ==
    /\ IdleMock
    /\ IdleFunctions
    /\ IdleDryRun
    /\ IdleTransfer
    /\ mpc = "start"
    /\ \E file \in MappingFiles : mappings = [t \in MappedTables |-> file]
    /\ sample_data \in SampleDataSets
    /\ ti = 1 /\ ri = 1 /\ li = 1
    /\ clock = 0
    /\ failures = 0
    /\ created_pubs = <<>>
    /\ relations_to_update = <<>>
    /\ posts = <<>>
    /\ patches = <<>>

NextMigrate ==
    \/ GetPubTypes
    \/ CreatePubFromRecord
    \/ NextTable
    \/ BeginLink
    \/ UpdatePubRelations
    \/ FinishMigrate

SpecMigrate == InitMigrate /\ [][NextMigrate]_vars

\* create_test_pubs.py run twice.
NextMigrateTwice ==
    \/ GetPubTypes
    \/ CreatePubFromRecord
    \/ NextTable
    \/ BeginLink
    \/ UpdatePubRelations
    \/ FinishMigrate
    \/ MigrateAgain

SpecMigrateTwice == InitMigrate /\ [][NextMigrateTwice]_vars

(***************************************************************************)
(* The helpers of create_test_pubs.py called on their own                  *)
(***************************************************************************)
ReviewerEmail == <<"R","e","v","i","e","w","e","r"," ","E","m","a","i","l">>

\* Field names as an Airtable schema holds them.
FieldNames == {
    <<"N","a","m","e">>,
    <<"T","i","t","l","e">>,
    <<"t","i","t","l","e">>,
    <<"L","i","n","k">>,
    <<"l","i","n","k">>,
    <<"U","p","d","a","t","e","d">>,
    <<"A","u","t","h","o","r"," ","E","m","a","i","l">>,
    <<"E","m","a","i","l"," ","S","t","a","t","u","s">>,
    <<"R","e","v","i","e","w","e","r"," ","E","m","a","i","l">>,
    <<"W","e","b","s","i","t","e">>,
    <<"D","O","I">>,
    <<"S","c","o","r","e">>,
    <<"H","o","m","e","p","a","g","e">>,
    <<"L","i","n","k","e","d"," ","R","e","c","o","r","d">>,
    <<"P","e","e","r">>,
    <<"T","y","p","e"," ","N","a","m","e">>,
    <<"C","o","n","t","a","c","t">>,
    <<"M","a","i","l">>,
    <<"U","R","L">>,
    <<"N","o","t","e","s">>,
    <<"N","o","t","e">>}

\* Airtable field types.
FieldTypes == {"singleLineText", "multipleRecordLinks", "url", "email", "number",
               "date"}

\* suggest_field_mapping(field_name, field_type) is called.
SuggestFieldMapping ==
    /\ \E field_name \in FieldNames, field_type \in FieldTypes :
          fcall' = [fn |-> "suggest", field_name |-> field_name,
                    field_type |-> field_type,
                    result |-> suggest_field_mapping(field_name, field_type)]
    /\ UNCHANGED <<migVars, cfgVars, dryVars, mockVars>>

\* suggest_field_mapping is called for a field whose name is a pattern of the
\* rule table, as it is written there.
SuggestForPattern ==
    /\ \E rp \in AllRulePairs, field_type \in {"singleLineText", "url"} :
          fcall' = [fn |-> "suggest_pattern", rule |-> rp[1], pattern |-> rp[2],
                    field_name |-> PatternAt(rp), field_type |-> field_type,
                    result |-> suggest_field_mapping(PatternAt(rp), field_type)]
    /\ UNCHANGED <<migVars, cfgVars, dryVars, mockVars>>

\* airtable_schema_analyzer.py, suggest_mappings: the entry it writes into the
\* mappings file for one field, NoMapping when it writes none.
AnalyzerFieldMapping(field_name, field_type) ==
    IF Contains(Lower(field_name), <<"t","i","t","l","e">>) \/ Contains(Lower(field_name), <<"n","a","m","e">>)
    THEN [pubpub_field |-> "title",
          confidence |-> IF Contains(Lower(field_name), <<"t","i","t","l","e">>)
                         THEN "high" ELSE "medium"]
    ELSE IF Contains(Lower(field_name), <<"d","e","s","c","r","i","p","t","i","o","n">>)
    THEN [pubpub_field |-> "description", confidence |-> "high"]
    ELSE IF Contains(Lower(field_name), <<"t","y","p","e">>)
            /\ field_type \in {"singleSelect", "multipleSelects"}
    THEN [pubpub_field |-> "pubTypeId", confidence |-> "medium"]
    ELSE IF field_type = "multipleRecordLinks"
    THEN [pubpub_field |-> "relations", confidence |-> "medium"]
    ELSE NoMapping

\* The field_mappings of a table with the one field "fld", as suggest_mappings
\* writes them.
AnalyzedFieldMappings(field_name, field_type) ==
    IF AnalyzerFieldMapping(field_name, field_type) = NoMapping
    THEN EmptyFieldMappings
    ELSE [f \in {"fld"} |-> AnalyzerFieldMapping(field_name, field_type)]

\* More field names and types of an Airtable schema.
AnalyzedNames == FieldNames \cup {<<"A","u","t","h","o","r","s">>, <<"S","u","b","j","e","c","t"," ","T","y","p","e">>, <<"D","e","s","c","r","i","p","t","i","o","n">>}
AnalyzedTypes == FieldTypes \cup {"singleSelect"}

\* create_pub_from_record looks the mapping of one field up, once with the
\* mappings file the analyzer wrote (result) and once with a file that holds
\* no entry for the field (computed).
MappingForField ==
    /\ \E field_name \in AnalyzedNames, field_type \in AnalyzedTypes :
          fcall' = [fn |-> "mapping_for", field_name |-> field_name,
                    field_type |-> field_type,
                    cached |-> AnalyzerFieldMapping(field_name, field_type),
                    result |-> MappingFor(AnalyzedFieldMappings(field_name, field_type),
                                          [id |-> "fld", name |-> field_name,
                                           type |-> field_type]),
                    computed |-> MappingFor(EmptyFieldMappings,
                                            [id |-> "fld", name |-> field_name,
                                             type |-> field_type])]
    /\ UNCHANGED <<migVars, cfgVars, dryVars, mockVars>>

\* Raw values as the Airtable API returns them, and some it should not return.
IsoDay == <<"2","0","2","2","-","0","2","-","1","0">>
RawValues == {
    None,
    Str(IsoDay),
    Str(<<"2","0","2","2","-","2","-","5">>),
    Str(<<"2","0","2","2","-","0","2","-","3","0">>),
    Str(<<"2","0","2","2","-","0","2","-","1","0","T","1","2",":","3","0",":","0","0","Z">>),
    Str(<<"N","/","A">>),
    Str(<<>>),
    Str(<<"4","2">>),
    Str(<<"-","7">>),
    Str(Paper),
    Integer(0), Integer(42), Float(3), Bool(TRUE), Bool(FALSE),
    List(<<>>), List(<<Str(RecA)>>), List(<<Str(RecA), Integer(1)>>)}

\* The field types format_field_value has a branch for, and one it has none for.
SourceTypes == {"singleSelect", "multipleSelects", "date", "dateTime",
                "multilineText", "richText", "checkbox", "number", "formula",
                "multipleRecordLinks", "multipleLookupValues", "url", "email",
                "singleLineText"}

\* format_field_value(value, field_type) is called on a raw value.
FormatFieldValue ==
    /\ \E value \in RawValues, field_type \in SourceTypes :
          fcall' = [fn |-> "format", raw |-> value, value |-> value,
                    field_type |-> field_type, again |-> FALSE,
                    result |-> format_field_value(value, field_type)]
    /\ UNCHANGED <<migVars, cfgVars, dryVars, mockVars>>

\* format_field_value is called on what the last call returned, with the same
\* field type.
FormatAgain ==
    /\ fcall.fn = "format"
    /\ ~fcall.again
    /\ fcall.result # Raised
    /\ fcall' = [fn |-> "format", raw |-> fcall.raw, value |-> fcall.result,
                 field_type |-> fcall.field_type, again |-> TRUE,
                 result |-> format_field_value(fcall.result, fcall.field_type)]
    /\ UNCHANGED <<migVars, cfgVars, dryVars, mockVars>>

InitFunctions ==
    /\ IdleMock
    /\ IdleMigrate
    /\ IdleDryRun
    /\ failures = 0
    /\ IdleTransfer
    /\ IdleFunctions

NextFunctions ==
    \/ SuggestFieldMapping
    \/ SuggestForPattern
    \/ MappingForField
    \/ FormatFieldValue
    \/ FormatAgain

SpecFunctions == InitFunctions /\ [][NextFunctions]_vars

(***************************************************************************)
(* create_test_pubs.py: create_pub_from_record builds the request of one   *)
(* record, called on its own                                               *)
(***************************************************************************)
\* title_candidates, in the order of the list.
title_candidates == <<<<"N","a","m","e">>, <<"T","i","t","l","e">>, <<"S","u","b","j","e","c","t">>, <<"I","D">>>>

\* The i-th field of a table of the schema: its id tells its position.
FieldId(i) == <<"f1", "f2", "f3">>[i]
TextField(i, name) == [id |-> FieldId(i), name |-> name, type |-> "singleLineText"]

\* mappings[table]["fields"] of the tables with two or three text fields named
\* by title_candidates, in every order.
NamedFields(names) == [i \in 1..Len(names) |-> TextField(i, names[i])]

TitleSchemas ==
    {NamedFields(<<title_candidates[p[1]], title_candidates[p[2]]>>) :
        p \in {q \in (1..4) \X (1..4) : q[1] # q[2]}} \cup
    {NamedFields(<<title_candidates[p[1]], title_candidates[p[2]],
                   title_candidates[p[3]]>>) :
        p \in {q \in (1..4) \X (1..4) \X (1..4) :
                  q[1] # q[2] /\ q[1] # q[3] /\ q[2] # q[3]}}

\* The value of the i-th field of a record: absent, empty, or a text of its own.
TextValues(i) == {None, Str(<<>>), Str(<<"v", Digits[i + 1]>>)}

TitleRecords ==
    {[id |-> RecA, fields |-> [f \in {"f1", "f2", "f3"} |->
         IF f = "f1" THEN v1 ELSE IF f = "f2" THEN v2 ELSE v3]] :
       v1 \in TextValues(1), v2 \in TextValues(2), v3 \in TextValues(3)}

\* mappings[table]["field_mappings"]: no entry, or an entry that maps the second
\* field to the description.
TitleCaches ==
    {EmptyFieldMappings,
     [f \in {"f2"} |-> [pubpub_field |-> "description", confidence |-> "high"]]}

\* mappings[table]["fields"] of tables with a text or URL field and a field
\* that links to records of another table.
LinkSchemas ==
    {<<[id |-> "f1", name |-> n1, type |-> t1],
       [id |-> "f2", name |-> n2, type |-> "multipleRecordLinks"]>> :
        n1 \in {<<"L","i","n","k"," ","t","o"," ","P","r","o","f","i","l","e">>, <<"H","o","m","e","p","a","g","e">>, <<"P","a","r","e","n","t"," ","O","r","g">>, <<"D","O","I">>},
        t1 \in {"url", "singleLineText"},
        n2 \in {<<"R","e","l","a","t","e","d">>, <<"R","e","v","i","e","w","s">>}}

ProfileUrl == <<"h","t","t","p","s",":","/","/","x",".","o","r","g","/","p">>

LinkRecords ==
    {[id |-> RecA, fields |-> [f \in {"f1", "f2"} |-> IF f = "f1" THEN v1 ELSE v2]] :
       v1 \in {None, Str(ProfileUrl)},
       v2 \in {None, List(<<Str(RecB)>>), List(<<Str(RecB), Str(RecC)>>)}}

\* The tables and records create_pub_from_record is called with.
RequestInputs ==
    (TitleSchemas \X TitleRecords) \cup (LinkSchemas \X LinkRecords)

\* create_pub_from_record(table_name, record, mappings, pub_types) up to the
\* request it posts, for the table Pre at time 0.  One call is followed, with
\* any of the inputs.
BuildRequest ==
    /\ fcall = NoCall
    /\ \E input \in RequestInputs, cache \in TitleCaches :
          fcall' = [fn |-> "build", fields |-> input[1], record |-> input[2],
                    cache |-> cache,
                    request |-> PubRequest(Pre, input[1], input[2], 0,
                                    FirstPass(input[1], input[2], 1,
                                        [values |-> [k \in {} |-> None],
                                         relations |-> <<>>,
                                         field_mappings |-> cache]))]
    /\ UNCHANGED <<migVars, cfgVars, dryVars, mockVars>>

\* Tables of the Airtable schema as AirtableSchemaAnalyzer reads them: a text
\* field and a field that links to records of another table.
AnalyzedSchemas ==
    {<<[id |-> "f1", name |-> n1, type |-> "singleLineText"],
       [id |-> "f2", name |-> n2, type |-> "multipleRecordLinks"]>> :
        n1 \in {<<"N","a","m","e">>, <<"T","i","t","l","e">>, <<"D","e","s","c","r","i","p","t","i","o","n">>, <<"D","O","I">>},
        n2 \in {<<"R","e","l","a","t","e","d">>, <<"A","u","t","h","o","r","s">>}}

AnalyzedRecords ==
    {[id |-> RecA, fields |-> [f \in {"f1", "f2"} |-> IF f = "f1" THEN v1 ELSE v2]] :
       v1 \in {None, Str(Paper)},
       v2 \in {None, List(<<Str(RecB)>>), List(<<Str(RecB), Str(RecC)>>)}}

\* suggest_mappings: the field_mappings it writes for a table.
AnalyzerTableMappings(schema) ==
    [f \in {schema[i].id : i \in {j \in 1..Len(schema) :
                AnalyzerFieldMapping(schema[j].name, schema[j].type) # NoMapping}} |->
        AnalyzerFieldMapping(
            schema[CHOOSE i \in 1..Len(schema) : schema[i].id = f].name,
            schema[CHOOSE i \in 1..Len(schema) : schema[i].id = f].type)]

\* suggest_mappings: the entry of a table in the file it writes.  It holds the
\* field mappings and a sample record and no "fields", so that
\* mappings[table].get("fields", {}) is empty in create_pub_from_record.
AnalyzerOutput(schema) ==
    [fields |-> <<>>, field_mappings |-> AnalyzerTableMappings(schema)]

\* create_pub_from_record with the entry of the table that suggest_mappings
\* wrote for `schema`.
BuildRequestFromAnalysis ==
    /\ fcall = NoCall
    /\ \E schema \in AnalyzedSchemas, record \in AnalyzedRecords :
          fcall' = [fn |-> "build_analyzed", schema |-> schema, record |-> record,
                    fields |-> AnalyzerOutput(schema).fields,
                    cache |-> AnalyzerOutput(schema).field_mappings,
                    request |-> PubRequest(Pre, AnalyzerOutput(schema).fields,
                                    record, 0,
                                    FirstPass(AnalyzerOutput(schema).fields, record, 1,
                                        [values |-> [k \in {} |-> None],
                                         relations |-> <<>>,
                                         field_mappings |->
                                             AnalyzerOutput(schema).field_mappings]))]
    /\ UNCHANGED <<migVars, cfgVars, dryVars, mockVars>>

NextRecord ==
    \/ BuildRequest
    \/ BuildRequestFromAnalysis

SpecRecord == InitFunctions /\ [][NextRecord]_vars

(***************************************************************************)
(* test_pubpub_api_with_airtable.py: class PubPubAPI                       *)
(***************************************************************************)
PREPRINT_TYPE_ID == "88a68e83-a516-4400-9991-57038fd1e1bd"
REVIEWER_TYPE_ID == "a259328d-5748-412f-a7c4-98d4dfef01f9"

\* The field dictionaries AirtableReader hands to create_publication: one with
\* a title and one without.
TitledFields == [k \in {"title", "doi"} |-> IF k = "title" THEN "A paper" ELSE "10.1/x"]
UntitledFields == [k \in {"Name"} |-> "Ada"]
FieldDicts == {TitledFields, UntitledFields}

\* Ids a caller may pass to the update methods: the placeholder and a real one.
DryRunId == [id |-> "dry-run-id"]
PubIds == {"dry-run-id", "pub-1"}
StageIds == {"stage-1"}
RelationLists == {<<>>, <<[relatedPubId |-> "pub-1"]>>}

\* data.get('title', 'Untitled')
TitleOf(data) == IF "title" \in DOMAIN data THEN data["title"] ELSE "Untitled"

\* The payload of create_publication.
CreatePayload(pub_type_id, data) ==
    [publicationTypeId |-> pub_type_id, title |-> TitleOf(data),
     attributions |-> <<>>, customFields |-> data]

ApiCall(method, url, data) == [method |-> method, url |-> url, data |-> data]

\* A variant of RecordApiCall: the log keeps the last call only.
RecordLastApiCall(log, method, url, data) == <<ApiCall(method, url, data)>>

\* _record_api_call: self.api_calls.append({...})
RecordApiCall(log, method, url, data) == Append(log, ApiCall(method, url, data))

\* The part the three methods share: the call is recorded; when dry_run is not
\* set the request is sent and the method returns response.json() or raises in
\* raise_for_status(); when it is set the method returns {'id': 'dry-run-id'}.
Request(method, url, payload) ==
    /\ Len(api_calls) < MaxApiCalls
    /\ api_calls' = RecordApiCall(api_calls, method, url, payload)
    /\ \/ /\ dry_run
          /\ returned' = [kind |-> "value", value |-> DryRunId]
          /\ UNCHANGED <<requests_sent, failures>>
       \/ /\ ~dry_run
          /\ requests_sent' = Append(requests_sent, ApiCall(method, url, payload))
          /\ \/ /\ returned' = [kind |-> "value",
                                value |-> [id |-> <<"pub", Len(requests_sent) + 1>>]]
                /\ UNCHANGED failures
             \/ /\ failures < MaxFailures
                /\ failures' = failures + 1
                /\ returned' = [kind |-> "raised"]
    /\ UNCHANGED dry_run

\* PubPubAPI.create_publication(pub_type_id, data)
CreatePublication ==
    /\ \E pub_type_id \in {PREPRINT_TYPE_ID, REVIEWER_TYPE_ID}, data \in FieldDicts :
          Request("POST", <<"pubs">>, CreatePayload(pub_type_id, data))
    /\ UNCHANGED <<migRest, cfgVars, fnVars, mockVars>>

\* PubPubAPI.update_publication_stage(pub_id, stage_id)
UpdatePublicationStage ==
    /\ \E pub_id \in PubIds, stage_id \in StageIds :
          Request("PUT", <<"pubs", pub_id, "stage">>, [stageId |-> stage_id])
    /\ UNCHANGED <<migRest, cfgVars, fnVars, mockVars>>

\* PubPubAPI.update_publication_relations(pub_id, relations)
UpdatePublicationRelations ==
    /\ \E pub_id \in PubIds, relations \in RelationLists :
          Request("PUT", <<"pubs", pub_id, "relations">>, [relations |-> relations])
    /\ UNCHANGED <<migRest, cfgVars, fnVars, mockVars>>

\* PubPubAPI(dry_run): --dry-run on the command line or not.
InitDryRun ==
    /\ IdleMock
    /\ IdleMigrate
    /\ failures = 0
    /\ IdleTransfer
    /\ IdleFunctions
    /\ dry_run \in BOOLEAN
    /\ api_calls = <<>>
    /\ requests_sent = <<>>
    /\ returned = NothingReturned

NextDryRun ==
    \/ CreatePublication
    \/ UpdatePublicationStage
    \/ UpdatePublicationRelations

SpecDryRun == InitDryRun /\ [][NextDryRun]_vars

(***************************************************************************)
(* pubpub_dryrun.py: class PubPubDryRun and main()                         *)
(***************************************************************************)
\* A JSON object, and d.get(key, default).
Dict(f) == [t |-> "dict", v |-> f]
IsDict(x) == x.t = "dict"
Get(d, key, default) == IF key \in DOMAIN d.v THEN d.v[key] ELSE default

\* s.split(",") and s.strip() (the strings of the model hold no white space
\* other than the space).
RECURSIVE SplitComma(_)
SplitComma(s) ==
    IF \A i \in 1..Len(s) : s[i] # ","
    THEN <<s>>
    ELSE <<SubSeq(s, 1, Least({i \in 1..Len(s) : s[i] = ","}) - 1)>>
            \o SplitComma(SubSeq(s, Least({i \in 1..Len(s) : s[i] = ","}) + 1, Len(s)))
RECURSIVE Strip(_)
Strip(s) ==
    IF s = <<>> THEN s
    ELSE IF Head(s) = " " THEN Strip(Tail(s))
    ELSE IF s[Len(s)] = " " THEN Strip(SubSeq(s, 1, Len(s) - 1))
    ELSE s

\* The words of the mock data and the defaults of process_mock_data.
P1 == <<"P","1">>
P2 == <<"P","2">>
DoiA == <<"1","0",".","1","/","a">>
DoiB == <<"1","0",".","1","/","b">>
Ada == <<"A","d","a">>
Bo == <<"B","o">>
Cy == <<"C","y">>
AdaAndBo == <<"A","d","a",","," ","B","o">>
Oops == <<"o","o","p","s">>
Other == <<"O","t","h","e","r">>
Author == <<"A","u","t","h","o","r">>
Editor == <<"E","d","i","t","o","r">>
UntitledPreprint == <<"U","n","t","i","t","l","e","d"," ","P","r","e","p","r","i","n","t">>
DefaultCollection == <<"D","e","f","a","u","l","t"," ","C","o","l","l","e","c","t","i","o","n">>
UnknownAuthor == <<"U","n","k","n","o","w","n"," ","A","u","t","h","o","r">>

\* The preprints a mock data file may hold.  Beside well-formed ones: a DOI
\* that is the empty string, an author that is a number, an Authors value that
\* is null, and an entry of the list that is no object at all.
Preprint(title, doi, authors) ==
    Dict([k \in {"Title", "DOI", "Authors"} |->
            CASE k = "Title" -> title [] k = "DOI" -> doi [] OTHER -> authors])
MockPreprints == {
    Preprint(Str(P1), Str(DoiA), List(<<Str(Ada)>>)),
    Dict([k \in {"Title", "DOI", "Collection"} |->
            CASE k = "Title" -> Str(P2) [] k = "DOI" -> Str(DoiB) [] OTHER -> Str(Other)]),
    Dict([k \in {"Title", "Authors"} |->
            IF k = "Title" THEN Str(P1) ELSE Str(AdaAndBo)]),
    Dict([k \in {"DOI", "Authors"} |->
            IF k = "DOI" THEN Str(DoiA)
            ELSE List(<<Dict([j \in {"Name", "Roles"} |->
                                IF j = "Name" THEN Str(Cy) ELSE List(<<Str(Editor)>>)])>>)]),
    Preprint(Str(P2), Str(DoiB), List(<<Str(Ada), Integer(42)>>)),
    Preprint(Str(P1), Str(<<>>), None),
    Str(Oops)}

\* The "preprints" list of the file (a file without the key behaves as one
\* with an empty list).
MockDataFiles ==
    {<<>>} \cup {<<p>> : p \in MockPreprints}
           \cup {<<p, q>> : p \in MockPreprints, q \in MockPreprints}

\* What the GraphQL endpoint may answer to one query: the request fails (no
\* connection, HTTP error status, no JSON), or the JSON body is
\*   ok               {"data": {<key>: <value>}}
\*   errors_only      {"errors": [...]}
\*   errors_null_data {"errors": [...], "data": null}
\*   errors_and_data  {"errors": [...], "data": {<key>: <value>}}
\*   null_value       {"data": {<key>: null}}
QueryAnswers == {"request_failed", "ok", "errors_only", "errors_null_data",
                 "errors_and_data", "null_value"}

TheCommunity == [id |-> Str(<<"c","1">>), name |-> Str(<<"R","R">>)]
CollectionLists ==
    {<<>>,
     <<[id |-> Str(<<"k","1">>), title |-> Str(DefaultCollection)]>>,
     <<[id |-> Str(<<"k","1">>), title |-> Str(DefaultCollection)],
       [id |-> Str(<<"k","2">>), title |-> Str(Other)]>>}

\* PubPubDryRun.__init__: self.results
NoCommunity == [k \in {} |-> None]
EmptyResults ==
    [community |-> NoCommunity, collections |-> <<>>, publications |-> <<>>,
     attributions |-> <<>>, mock_calls |-> <<>>, errors |-> <<>>]

\* execute_query: what it appends to results["errors"] (the message and the
\* variables of the entry are left out).
QueryError(res, answer, query) ==
    CASE answer = "request_failed" ->
            [res EXCEPT !.errors = Append(@, [type |-> "request", query |-> query])]
      [] answer \in {"errors_only", "errors_null_data", "errors_and_data"} ->
            [res EXCEPT !.errors = Append(@, [type |-> "graphql", query |-> query])]
      [] OTHER -> res

\* get_community and get_collections after execute_query has returned: the
\* value is taken from result["data"], the method returns None (or []), or it
\* raises: `"community" in None` and community['name'] on null are TypeErrors,
\* and so is len(None).
QueryRaises(answer) == answer \in {"errors_null_data", "null_value"}
QueryGivesValue(answer) == answer \in {"ok", "errors_and_data"}

\* datetime.datetime.now().strftime('%Y%m%d%H%M%S') and
\* datetime.datetime.now().isoformat(), `now` seconds after 2025-01-01 00:00:00
\* (now < 60).  The clock of the model has a resolution of one second: the
\* microseconds isoformat() adds are left out.
MockStamp(now) == <<"2","0","2","5","0","1","0","1","0","0","0","0">> \o Padded(now, 2)
IsoNow(now) == IsoFormat(2025, 1, 1, <<"0","0",":","0","0",":">> \o Padded(now, 2))
MockPubId(now) == <<"m","o","c","k","-","p","u","b","-">> \o MockStamp(now)
MockAttrId(now) == <<"m","o","c","k","-","a","t","t","r","-">> \o MockStamp(now)

\* mock_create_publication: one mock call and one publication are appended;
\* the method returns the publication, whose id is MockPubId(now).
MockPublication(title, description, collection_id, now) ==
    [id |-> Str(MockPubId(now)), title |-> title, description |-> description,
     collection_id |-> collection_id, is_mock |-> Bool(TRUE),
     created_at |-> Str(IsoNow(now))]
mock_create_publication(res, title, description, collection_id, now) ==
    [res EXCEPT
        !.mock_calls = Append(@, [type |-> "create_publication", title |-> title,
                                  description |-> description,
                                  collection_id |-> collection_id,
                                  mock_id |-> Str(MockPubId(now)),
                                  timestamp |-> Str(IsoNow(now))]),
        !.publications = Append(@, MockPublication(title, description,
                                                   collection_id, now))]

\* mock_update_publication: the loop over results["publications"] stops at the
\* first publication whose id is pub_id; 0 stands for pub_index = None.
PubIndex(publications, pub_id) ==
    IF \E i \in 1..Len(publications) : publications[i].id = pub_id
    THEN Least({i \in 1..Len(publications) : publications[i].id = pub_id})
    ELSE 0
\* publication[key] = value for the updates, then publication["updated_at"].
UpdatedPublication(pub, updates, now) ==
    [k \in DOMAIN pub \cup DOMAIN updates \cup {"updated_at"} |->
        IF k = "updated_at" THEN Str(IsoNow(now))
        ELSE IF k \in DOMAIN updates THEN updates[k] ELSE pub[k]]
mock_update_publication(res, pub_id, updates, now) ==
    IF PubIndex(res.publications, pub_id) = 0
    THEN res
    ELSE [res EXCEPT
            !.mock_calls = Append(@, [type |-> "update_publication",
                                      pub_id |-> pub_id, updates |-> updates,
                                      timestamp |-> Str(IsoNow(now))]),
            !.publications[PubIndex(res.publications, pub_id)] =
                UpdatedPublication(@, updates, now)]

\* mock_create_attribution
mock_create_attribution(res, pub_id, attribution_data, now) ==
    [res EXCEPT
        !.mock_calls = Append(@, [type |-> "create_attribution", pub_id |-> pub_id,
                                  attribution_data |-> attribution_data,
                                  mock_id |-> Str(MockAttrId(now)),
                                  timestamp |-> Str(IsoNow(now))]),
        !.attributions = Append(@, [id |-> Str(MockAttrId(now)), pub_id |-> pub_id,
                                    name |-> attribution_data.name,
                                    roles |-> attribution_data.roles,
                                    is_mock |-> Bool(TRUE),
                                    created_at |-> Str(IsoNow(now))])]

\* process_mock_data, the body of the loop over the preprints.
\* collection_map.get(collection_name): the id of the last collection of that
\* title, or None; then the first collection available when there is one.
CollectionMapGet(collections, name) ==
    IF \E i \in 1..Len(collections) : collections[i].title = name
    THEN collections[CHOOSE i \in 1..Len(collections) :
                        /\ collections[i].title = name
                        /\ \A j \in 1..Len(collections) :
                              collections[j].title = name => j <= i].id
    ELSE None
CollectionIdOf(collections, name) ==
    IF Truthy(CollectionMapGet(collections, name)) \/ collections = <<>>
    THEN CollectionMapGet(collections, name)
    ELSE collections[1].id

\* authors: a string is split at the commas and each name stripped.
AuthorsOf(preprint) ==
    IF IsStr(Get(preprint, "Authors", List(<<>>)))
    THEN List([i \in 1..Len(SplitComma(Get(preprint, "Authors", List(<<>>)).v)) |->
                 Str(Strip(SplitComma(Get(preprint, "Authors", List(<<>>)).v)[i]))])
    ELSE Get(preprint, "Authors", List(<<>>))

\* The name and the roles of one author: a string is the name of an Author,
\* an object gives its own.
AttributionData(author) ==
    IF IsStr(author)
    THEN [name |-> author, roles |-> List(<<Str(Author)>>)]
    ELSE [name |-> Get(author, "Name", Str(UnknownAuthor)),
          roles |-> Get(author, "Roles", List(<<Str(Author)>>))]

\* `except Exception`: the preprint is recorded in results["errors"] (the
\* message of the entry is left out).
ProcessingError(res, preprint) ==
    [res EXCEPT !.errors = Append(@, [type |-> "processing", preprint |-> preprint])]

\* The loop over the authors from author i on.  `for author in authors` raises
\* when authors is no list (None), author.get raises when an author is
\* neither a string nor an object; what was recorded before stays.
RECURSIVE Attribute(_, _, _, _, _, _)
Attribute(res, preprint, pub_id, authors, i, now) ==
    IF ~IsList(authors) THEN ProcessingError(res, preprint)
    ELSE IF i > Len(authors.v) THEN res
    ELSE IF ~(IsStr(authors.v[i]) \/ IsDict(authors.v[i]))
    THEN ProcessingError(res, preprint)
    ELSE Attribute(mock_create_attribution(res, pub_id,
                                           AttributionData(authors.v[i]), now),
                   preprint, pub_id, authors, i + 1, now)

\* pub = self.mock_create_publication(title, description, collection_id)
PublicationCreated(res, preprint, now) ==
    mock_create_publication(res,
        Get(preprint, "Title", Str(UntitledPreprint)),
        Get(preprint, "Abstract", Str(<<>>)),
        CollectionIdOf(res.collections,
                       Get(preprint, "Collection", Str(DefaultCollection))),
        now)

\* if doi: self.mock_update_publication(pub["id"], {"doi": doi})
DoiAdded(res, preprint, now) ==
    IF Truthy(Get(preprint, "DOI", None))
    THEN mock_update_publication(res, Str(MockPubId(now)),
                                 [k \in {"doi"} |-> Get(preprint, "DOI", None)], now)
    ELSE res

\* One preprint: preprint.get raises when the entry is no object.
ProcessedPreprint(res, preprint, now) ==
    IF ~IsDict(preprint) THEN ProcessingError(res, preprint)
    ELSE Attribute(DoiAdded(PublicationCreated(res, preprint, now), preprint, now),
                   preprint, Str(MockPubId(now)), AuthorsOf(preprint), 1, now)

\* main(): load_mock_data returns the preprints of the file, or raises
\* FileNotFoundError, which main() catches: it returns 1.
LoadMockData ==
    /\ dpc = "load"
    /\ \/ /\ \E data \in MockDataFiles : mock_data' = data
          /\ dpc' = "community"
          /\ UNCHANGED exit_status
       \/ /\ dpc' = "exited"
          /\ exit_status' = 1
          /\ UNCHANGED mock_data
    /\ UNCHANGED <<pix, dclock, results, saved>>
    /\ UNCHANGED <<migVars, cfgVars, fnVars, dryVars>>

\* process_mock_data, get_community: without a community process_mock_data
\* returns False and main() goes on to save_results; an exception leaves
\* process_mock_data and main() returns 1.
GetCommunity ==
    /\ dpc = "community"
    /\ \E answer \in QueryAnswers :
         /\ results' =
               IF QueryGivesValue(answer)
               THEN [QueryError(results, answer, "GetCommunity")
                        EXCEPT !.community = TheCommunity]
               ELSE QueryError(results, answer, "GetCommunity")
         /\ dpc' = IF QueryRaises(answer) THEN "exited"
                   ELSE IF QueryGivesValue(answer) THEN "collections" ELSE "save"
         /\ exit_status' = IF QueryRaises(answer) THEN 1 ELSE exit_status
    /\ UNCHANGED <<mock_data, pix, dclock, saved>>
    /\ UNCHANGED <<migVars, cfgVars, fnVars, dryVars>>

\* process_mock_data, get_collections: a listing that cannot be read is [].
GetCollections ==
    /\ dpc = "collections"
    /\ \E answer \in QueryAnswers, collections \in CollectionLists :
         /\ results' =
               IF QueryGivesValue(answer)
               THEN [QueryError(results, answer, "GetCollections")
                        EXCEPT !.collections = collections]
               ELSE QueryError(results, answer, "GetCollections")
         /\ dpc' = IF QueryRaises(answer) THEN "exited" ELSE "preprints"
         /\ exit_status' = IF QueryRaises(answer) THEN 1 ELSE exit_status
    /\ pix' = 1
    /\ UNCHANGED <<mock_data, dclock, saved>>
    /\ UNCHANGED <<migVars, cfgVars, fnVars, dryVars>>

\* One iteration of `for preprint in self.mock_data["preprints"]`.
ProcessPreprint ==
    /\ dpc = "preprints"
    /\ pix <= Len(mock_data)
    /\ results' = ProcessedPreprint(results, mock_data[pix], dclock)
    /\ pix' = pix + 1
    /\ UNCHANGED <<dpc, mock_data, dclock, saved, exit_status>>
    /\ UNCHANGED <<migVars, cfgVars, fnVars, dryVars>>

\* The loop has ended (the reviews are only logged).
PreprintsDone ==
    /\ dpc = "preprints"
    /\ pix > Len(mock_data)
    /\ dpc' = "save"
    /\ UNCHANGED <<mock_data, pix, dclock, results, saved, exit_status>>
    /\ UNCHANGED <<migVars, cfgVars, fnVars, dryVars>>

\* A second passes while main() runs.
MockTick ==
    /\ dpc \in {"community", "collections", "preprints"}
    /\ dclock < MaxClock
    /\ dclock' = dclock + 1
    /\ UNCHANGED <<dpc, mock_data, pix, results, saved, exit_status>>
    /\ UNCHANGED <<migVars, cfgVars, fnVars, dryVars>>

\* main(): save_results writes the results file, then main() returns 1 when
\* results["errors"] is not empty and 0 otherwise.
SaveResults ==
    /\ dpc = "save"
    /\ saved' = TRUE
    /\ exit_status' = IF results.errors # <<>> THEN 1 ELSE 0
    /\ dpc' = "exited"
    /\ UNCHANGED <<mock_data, pix, dclock, results>>
    /\ UNCHANGED <<migVars, cfgVars, fnVars, dryVars>>

\* exit_status is -1 while main() has not returned.
InitMock ==
    /\ IdleMigrate
    /\ failures = 0
    /\ IdleTransfer
    /\ IdleFunctions
    /\ IdleDryRun
    /\ dpc = "load"
    /\ mock_data = <<>>
    /\ pix = 1
    /\ dclock = 0
    /\ results = EmptyResults
    /\ saved = FALSE
    /\ exit_status = -1

NextMock ==
    \/ LoadMockData
    \/ GetCommunity
    \/ GetCollections
    \/ ProcessPreprint
    \/ PreprintsDone
    \/ MockTick
    \/ SaveResults

SpecMock == InitMock /\ [][NextMock]_vars

(***************************************************************************)
(* Properties of create_test_pubs.py (SpecMigrate)                         *)
(***************************************************************************)
\* The records the run migrates: those of the tables that have an entry in the
\* mappings file (main() skips the other tables).
RecordIds(t) == {sample_data[t][k].id : k \in 1..Len(sample_data[t])}
RunRecordIds == UNION {RecordIds(t) : t \in DOMAIN mappings}

Attempted(id) == \E i \in 1..Len(posts) : posts[i].src = id

IsOk(call) == call.ok

\* The POSTs the target accepted, in order.
OkPosts == SelectSeq(posts, IsOk)

\* Source record id -> target pub id, for the records created so far.
CreatedSources == {OkPosts[i].src : i \in 1..Len(OkPosts)}
TargetIdOf(src) == OkPosts[CHOOSE i \in 1..Len(OkPosts) : OkPosts[i].src = src].id
CreatedIds == {OkPosts[i].id : i \in 1..Len(OkPosts)}
SourceOf(pub_id) == OkPosts[CHOOSE i \in 1..Len(OkPosts) : OkPosts[i].id = pub_id].src

AllSourceIds == UNION {RecordIds(t) : t \in DOMAIN sample_data}

\* The linked record ids of a source record, as its cross-table link field
\* holds them.
LinksOfRecord(record) ==
    IF IsList(record.fields["fldRel"])
    THEN {record.fields["fldRel"].v[k].v : k \in 1..Len(record.fields["fldRel"].v)}
    ELSE {}
LinksInTable(t, src) ==
    UNION {LinksOfRecord(sample_data[t][k]) :
              k \in {k \in 1..Len(sample_data[t]) : sample_data[t][k].id = src}}
LinksOf(src) == UNION {LinksInTable(t, src) : t \in DOMAIN sample_data}

RelatedIds(patch) == {patch.related[k].v : k \in 1..Len(patch.related)}

\* C1: once a relation update has been sent, every record of the run (every
\* record of every table that has a mappings entry) has had its create attempt,
\* successful or not.
C1_RelationBarrier ==
    Len(patches) > 0 => \A id \in RunRecordIds : Attempted(id)

\* C1 witness: a relation update was sent in a run where one create failed.
C1_Witness ==
    /\ Len(patches) > 0
    /\ \E i \in 1..Len(posts) : ~posts[i].ok
    /\ \E i \in 1..Len(posts) : posts[i].ok

\* C2 (as claimed): every related id of a relation update is the target id of a
\* created pub, and the update sent for A holds the target id of every record B
\* that A links to and that was created.
C2_RelationsUseTargetIds ==
    \A i \in 1..Len(patches) :
        /\ RelatedIds(patches[i]) \subseteq CreatedIds
        /\ \A b \in LinksOf(SourceOf(patches[i].pub_id)) :
              b \in CreatedSources => TargetIdOf(b) \in RelatedIds(patches[i])

\* C3 (as claimed): no relation update holds a source record id that has no
\* created pub.
C3_UnresolvedDropped ==
    \A i \in 1..Len(patches) :
        \A id \in RelatedIds(patches[i]) :
            ~(id \in AllSourceIds /\ id \notin CreatedSources)

\* The title as resolved, before " [<timestamp>]" (18 characters) was added.
ResolvedTitle(pub) == SubSeq(pub.title, 1, Len(pub.title) - 18)

\* C9 (as claimed): two pubs created in one run from records that resolve to
\* the same title have different slugs and different titles.
C9_DistinctSlugs ==
    \A i, j \in 1..Len(created_pubs) :
        (i # j /\ ResolvedTitle(created_pubs[i]) = ResolvedTitle(created_pubs[j]))
            => /\ created_pubs[i].slug # created_pubs[j].slug
               /\ created_pubs[i].title # created_pubs[j].title

\* C10: a record whose POST the target rejects is skipped and nothing else is:
\* created_pubs holds exactly the accepted pubs, relation updates go only to
\* accepted pubs, a rejection never aborts the run, and when the run is done
\* every record of the run has had exactly one create attempt.
C10_FailureSkipsRecordOnly ==
    /\ Len(created_pubs) = Len(OkPosts)
    /\ \A j \in 1..Len(created_pubs) : created_pubs[j].id = OkPosts[j].id
    /\ \A j \in 1..Len(relations_to_update) :
          relations_to_update[j][1] \in CreatedIds
    /\ \A i \in 1..Len(patches) : patches[i].pub_id \in CreatedIds
    /\ mpc = "aborted" => posts = <<>>
    /\ mpc = "done" =>
          \A id \in RunRecordIds :
              Cardinality({i \in 1..Len(posts) : posts[i].src = id}) = 1

\* C10 witness: the run is done, a create failed, a later create succeeded and
\* a relation update was sent.
C10_Witness ==
    /\ mpc = "done"
    /\ Len(patches) > 0
    /\ \E i, j \in 1..Len(posts) : i < j /\ ~posts[i].ok /\ posts[j].ok

\* The source record a POST was built from, and the cross-table link fields of
\* its table.
RecordOfPost(post) ==
    sample_data[post.table][CHOOSE k \in 1..Len(sample_data[post.table]) :
                                sample_data[post.table][k].id = post.src]
LinkFieldsOf(table_name) ==
    {mappings[table_name].fields[k].id :
        k \in {k \in 1..Len(mappings[table_name].fields) :
                  mappings[table_name].fields[k].type = "multipleRecordLinks"}}

\* C19 (as claimed): no create request holds, under any key of its values, the
\* value of a cross-table link field of its record, whatever the field is
\* called.
C19_LinksNeverInValues ==
    \A i \in 1..Len(posts) :
        \A f \in LinkFieldsOf(posts[i].table) :
            ~IsNone(FieldOf(RecordOfPost(posts[i]), f)) =>
                \A k \in DOMAIN posts[i].values :
                    posts[i].values[k] #
                        format_field_value(FieldOf(RecordOfPost(posts[i]), f),
                                           "multipleRecordLinks")

\* C23 (as claimed): over the two runs no source record has two entities in
\* the target; the second run sends no POST that the target accepts for a
\* record whose POST it accepted in the first run.
C23_SecondRunCreatesNothingNew ==
    \A i \in 1..Len(posts), j \in 1..Len(posts) :
        (i < j /\ posts[i].ok /\ posts[j].ok) => posts[i].src # posts[j].src

(***************************************************************************)
(* Properties of the configuration transfer (SpecTransfer)                 *)
(***************************************************************************)
CallsOfKind(kind) == {i \in 1..Len(calls) : calls[i].kind = kind}
OkCallsOfKind(kind) == {i \in CallsOfKind(kind) : calls[i].ok}

\* The types and the stages the target held when this run started: what it
\* holds now without what this run created.
StartTypes == SubSeq(tgtTypes, 1, Len(tgtTypes) - Cardinality(OkCallsOfKind("create_type")))
StartStages ==
    SubSeq(tgtStages, 1, Len(tgtStages) - Cardinality(OkCallsOfKind("create_stage")))
NamesOf(listing) == {listing[i].name : i \in 1..Len(listing)}
IdsNamed(listing, name) ==
    {listing[i].id : i \in {i \in 1..Len(listing) : listing[i].name = name}}

\* The type (stage) loop has dealt with item k of the fetched configuration.
TypeProcessed(k) ==
    tpc \in {"list_stages", "stages", "constraints", "fields", "done"}
        \/ (tpc = "types" /\ tix > k)
StageProcessed(k) ==
    tpc \in {"constraints", "fields", "done"} \/ (tpc = "stages" /\ tix > k)
ConstraintProcessed(k) ==
    tpc \in {"fields", "done"} \/ (tpc = "constraints" /\ tix > k)

CreateCallsFor(kind, id) == {i \in CallsOfKind(kind) : calls[i].src = id}

\* C4 (as claimed): the second run creates no type and no stage; the target
\* holds as many of each during and after it as when the first run ended.
C4_RerunCreatesNothing ==
    run = 2 => /\ Len(tgtTypes) = afterFirst.types
               /\ Len(tgtStages) = afterFirst.stages

\* What C5 says of one processed item of a pass: a name the target held at the
\* start gets no create call and the id of a held object of that name; any
\* other name gets a create call and, when it succeeded, a new id.
MatchedOrCreated(item, kind, start, mapping) ==
    IF item.name \in NamesOf(start)
    THEN /\ CreateCallsFor(kind, item.id) = {}
         /\ item.id \in DOMAIN mapping
         /\ mapping[item.id] \in IdsNamed(start, item.name)
    ELSE /\ CreateCallsFor(kind, item.id) # {}
         /\ \A i \in CreateCallsFor(kind, item.id) :
               calls[i].ok => /\ item.id \in DOMAIN mapping
                              /\ mapping[item.id] \notin {start[j].id : j \in 1..Len(start)}

\* C5 (as claimed), for improved_transfer.py.
C5_MatchByNameOrCreate ==
    engine = "improved" =>
        /\ \A k \in 1..Len(config.pub_types) :
              TypeProcessed(k) =>
                  MatchedOrCreated(config.pub_types[k], "create_type", StartTypes,
                                   type_id_mapping)
        /\ \A k \in 1..Len(config.stages) :
              StageProcessed(k) =>
                  MatchedOrCreated(config.stages[k], "create_stage", StartStages,
                                   stage_id_mapping)

\* The create calls of this run that the target accepted for the name.
CreatedNamed(kind, name) == {i \in OkCallsOfKind(kind) : calls[i].name = name}

\* C27 (as claimed), for improved_transfer.py: of a name the target did not
\* hold when the run started, the run creates at most one type and at most one
\* stage.
C27_OneCreatePerName ==
    engine = "improved" =>
        /\ \A k \in 1..Len(config.pub_types) :
              config.pub_types[k].name \notin NamesOf(StartTypes) =>
                  Cardinality(CreatedNamed("create_type", config.pub_types[k].name)) <= 1
        /\ \A k \in 1..Len(config.stages) :
              config.stages[k].name \notin NamesOf(StartStages) =>
                  Cardinality(CreatedNamed("create_stage", config.stages[k].name)) <= 1

\* The place of a kind of call in the order the code keeps.
RankInCode(kind) ==
    CASE kind = "create_type" -> 1
      [] kind = "create_stage" -> 2
      [] kind = "set_constraints" -> 3
      [] OTHER -> 4

\* The place of a kind of call in the order C6 states.
RankAsClaimed(kind) ==
    CASE kind = "create_type" -> 1
      [] kind = "create_stage" -> 2
      [] kind = "create_field" -> 3
      [] OTHER -> 4

SourceStageIds == {source.stages[k].id : k \in 1..Len(source.stages)}
TargetStageIds == {tgtStages[k].id : k \in 1..Len(tgtStages)}
IdsIn(call) == {call.ids[k] : k \in 1..Len(call.ids)}

\* C7: every move-constraint update is addressed to the target id of its stage
\* and lists target stage ids only, never a source stage id; and once the pass
\* has dealt with a stage A that has a constraint to B, both with a target id,
\* an update addressed to A's target id lists B's target id.
C7_ConstraintsUseTargetIds ==
    /\ \A i \in CallsOfKind("set_constraints") :
          /\ calls[i].src \in DOMAIN stage_id_mapping
          /\ calls[i].target = stage_id_mapping[calls[i].src]
          /\ calls[i].target \in TargetStageIds \ SourceStageIds
          /\ IdsIn(calls[i]) \subseteq TargetStageIds \ SourceStageIds
    /\ \A k \in 1..Len(config.stages) :
          (ConstraintProcessed(k) /\ config.stages[k].id \in DOMAIN stage_id_mapping)
            => \A m \in 1..Len(config.stages[k].moveConstraints) :
                  config.stages[k].moveConstraints[m] \in DOMAIN stage_id_mapping
                    => \E i \in CallsOfKind("set_constraints") :
                          /\ calls[i].src = config.stages[k].id
                          /\ calls[i].target = stage_id_mapping[config.stages[k].id]
                          /\ stage_id_mapping[config.stages[k].moveConstraints[m]]
                                \in IdsIn(calls[i])

\* C7 witness: an accepted update for a stage with two constraints, both mapped.
C7_Witness ==
    \E i \in OkCallsOfKind("set_constraints") : Len(calls[i].ids) = 2

\* C8: once a move-constraint update has been sent, every fetched source stage
\* has been matched to a target stage or has had its create call.
C8_ConstraintsAfterAllStages ==
    CallsOfKind("set_constraints") # {} =>
        \A k \in 1..Len(config.stages) :
            \/ config.stages[k].id \in DOMAIN stage_id_mapping
            \/ CreateCallsFor("create_stage", config.stages[k].id) # {}

\* C8 witness: the update of the first stage lists the target id of a stage that
\* comes later in the source order and was created in this run.
C8_Witness ==
    \E i \in CallsOfKind("set_constraints") :
        /\ calls[i].src = <<"ss", 1>>
        /\ <<"ss", 3>> \in DOMAIN stage_id_mapping
        /\ stage_id_mapping[<<"ss", 3>>] \in IdsIn(calls[i])
        /\ OkCallsOfKind("create_stage") # {}
        /\ \E j \in CallsOfKind("create_stage") : ~calls[j].ok

\* The field loop of transfer_config_and_data.py has dealt with field k.
FieldProcessed(k) ==
    engine = "basic" /\ (tpc = "done" \/ (tpc = "fields" /\ tix > k))
FieldCallsFor(field) == {i \in CallsOfKind("create_field") : calls[i].name = field.name}

\* C11: a type whose create call failed has no entry in type_id_mapping, and the
\* type pass still deals with every fetched type (each is matched or has its
\* create call); a field whose source type has no entry in type_id_mapping gets
\* no create call, and every processed field whose type has an entry gets one
\* addressed to the mapped target type, whatever was skipped before it.
C11_FailedTypeSkipsItsFields ==
    /\ \A i \in CallsOfKind("create_type") :
          ~calls[i].ok => calls[i].src \notin DOMAIN type_id_mapping
    /\ \A k \in 1..Len(config.pub_types) :
          TypeProcessed(k) =>
              \/ config.pub_types[k].id \in DOMAIN type_id_mapping
              \/ CreateCallsFor("create_type", config.pub_types[k].id) # {}
    /\ \A k \in 1..Len(config.fields) :
          FieldProcessed(k) =>
              IF config.fields[k].pubType \in DOMAIN type_id_mapping
              THEN \E i \in FieldCallsFor(config.fields[k]) :
                      calls[i].target = type_id_mapping[config.fields[k].pubType]
              ELSE FieldCallsFor(config.fields[k]) = {}

\* C11 witness: the create of the first type failed, the second type was
\* created after it, the field of the first type got no call and the later
\* field of the second type got one.
C11_Witness ==
    /\ engine = "basic" /\ tpc = "done"
    /\ Len(config.fields) = 3
    /\ \E i, j \in CallsOfKind("create_type") : i < j /\ ~calls[i].ok /\ calls[j].ok
    /\ FieldCallsFor(config.fields[1]) = {}
    /\ FieldCallsFor(config.fields[3]) # {}

ConstraintCallsFor(stage) == {i \in CallsOfKind("set_constraints") : calls[i].src = stage.id}
\* The constraints of a stage whose referenced stage has a target id.
ResolvableConstraints(stage) ==
    {stage.moveConstraints[m] : m \in 1..Len(stage.moveConstraints)}
        \cap DOMAIN stage_id_mapping

\* C12: for a stage the constraint pass has dealt with: a stage without a
\* target id gets no move-constraint update; a stage with a target id and at
\* least one resolvable constraint gets one update, and that update lists the
\* target ids of its resolvable constraints and nothing else (the constraints
\* whose stage has no target id are left out); this holds for every stage of
\* the pass, whatever was dropped or skipped before it.
C12_MissingConstraintDropped ==
    \A k \in 1..Len(config.stages) :
        ConstraintProcessed(k) =>
            IF config.stages[k].id \in DOMAIN stage_id_mapping
                  /\ ResolvableConstraints(config.stages[k]) # {}
            THEN /\ Cardinality(ConstraintCallsFor(config.stages[k])) = 1
                 /\ \A i \in ConstraintCallsFor(config.stages[k]) :
                       IdsIn(calls[i]) =
                           {stage_id_mapping[c] :
                               c \in ResolvableConstraints(config.stages[k])}
            ELSE ConstraintCallsFor(config.stages[k]) = {}

\* C12 witness: the first stage has constraints and no target id, so it got no
\* update; the second stage, after it, has one constraint to that stage and one
\* to a created stage, and its update lists the one target id.
C12_Witness ==
    /\ tpc \in {"fields", "done"}
    /\ Len(config.stages) = 3
    /\ config.stages[1].moveConstraints # <<>>
    /\ config.stages[1].id \notin DOMAIN stage_id_mapping
    /\ ConstraintCallsFor(config.stages[1]) = {}
    /\ Len(config.stages[2].moveConstraints) = 2
    /\ \E i \in ConstraintCallsFor(config.stages[2]) :
          IdsIn(calls[i]) = {stage_id_mapping[<<"ss", 3>>]}

\* get_source_configuration left a listing of the source empty that the source
\* holds: the GET of the types or of the stages failed.
SourceReadFailed ==
    /\ tpc \notin {"access", "fetch", "aborted"}
    /\ \/ config.pub_types # source.pub_types
       \/ config.stages # source.stages

\* improved: the GET of the target's types (stages) failed, so the objects the
\* target held at the start are not in existing_types (existing_stages).
TargetListingFailed ==
    /\ engine = "improved"
    /\ \/ /\ tpc \in {"types", "list_stages", "stages", "constraints", "done"}
          /\ existing_types # ExistingByName(StartTypes)
       \/ /\ tpc \in {"stages", "constraints", "done"}
          /\ existing_stages # ExistingByName(StartStages)

\* C21 (as claimed): once the source's or the target's listing of types or
\* stages could not be read, the run issues no create or update call to the
\* target.
C21_SchemaFailureAbortsBeforeWrite ==
    (SourceReadFailed \/ TargetListingFailed) => calls = <<>>

(***************************************************************************)
(* Properties of the helpers (SpecFunctions)                               *)
(***************************************************************************)
\* Rule r has a pattern that occurs in the lowercased name.
RuleMatches(r, lowered) ==
    \E p \in 1..Len(FIELD_MAPPING_RULES[r].patterns) :
        Contains(lowered, FIELD_MAPPING_RULES[r].patterns[p])
MatchingRules(lowered) ==
    {r \in 1..Len(FIELD_MAPPING_RULES) : RuleMatches(r, lowered)}
\* The first rule, in declaration order, that matches, and its first matching
\* pattern.
FirstRule(lowered) ==
    CHOOSE r \in MatchingRules(lowered) : \A q \in MatchingRules(lowered) : r <= q
FirstPatternOf(r, lowered) ==
    FIELD_MAPPING_RULES[r].patterns[
        CHOOSE p \in 1..Len(FIELD_MAPPING_RULES[r].patterns) :
            /\ Contains(lowered, FIELD_MAPPING_RULES[r].patterns[p])
            /\ \A q \in 1..(p - 1) :
                  ~Contains(lowered, FIELD_MAPPING_RULES[r].patterns[q])]

\* C14: when some name rule matches the lowercased field name, the suggester
\* returns the target of the first matching rule in declaration order, also
\* when a later rule has a pattern equal to the whole name; the confidence is
\* high when the matched pattern (the first matching pattern of that rule) is
\* the whole lowercased name and medium otherwise.
C14_FirstRuleWins ==
    (fcall.fn = "suggest" /\ MatchingRules(Lower(fcall.field_name)) # {}) =>
        /\ fcall.result.pubpub_field =
              FIELD_MAPPING_RULES[FirstRule(Lower(fcall.field_name))].pubpub_field
        /\ fcall.result.confidence =
              IF FirstPatternOf(FirstRule(Lower(fcall.field_name)),
                                Lower(fcall.field_name)) = Lower(fcall.field_name)
              THEN "high" ELSE "medium"

\* C14 witness: the name "Link" is a whole pattern of the rule for relations
\* and of the later rule for url; the suggester answered relations.
C14_Witness ==
    /\ fcall.fn = "suggest"
    /\ Cardinality({r \in MatchingRules(Lower(fcall.field_name)) :
           \E p \in 1..Len(FIELD_MAPPING_RULES[r].patterns) :
               FIELD_MAPPING_RULES[r].patterns[p] = Lower(fcall.field_name)}) = 2
    /\ fcall.result = [pubpub_field |-> "relations", confidence |-> "high"]

\* The type fallback table.
TypeFallback(field_type) ==
    CASE field_type = "multipleRecordLinks" ->
            [pubpub_field |-> "relations", confidence |-> "medium"]
      [] field_type = "url" -> [pubpub_field |-> "url", confidence |-> "medium"]
      [] field_type = "email" -> [pubpub_field |-> "email", confidence |-> "medium"]
      [] OTHER -> NoMapping

\* C15 (amended): when no name rule matches, the answer is the entry of the
\* type fallback table (null for a type without entry); "Reviewer Email" of
\* type email resolves to email at medium confidence, through the name rule for
\* email, which matches it.
C15_TypeFallback ==
    fcall.fn = "suggest" =>
        /\ MatchingRules(Lower(fcall.field_name)) = {}
              => fcall.result = TypeFallback(fcall.field_type)
        /\ (fcall.field_name = ReviewerEmail /\ fcall.field_type = "email")
              => /\ fcall.result = [pubpub_field |-> "email", confidence |-> "medium"]
                 /\ FIELD_MAPPING_RULES[FirstRule(Lower(fcall.field_name))].pubpub_field
                       = "email"

\* C15 (as claimed): ... "Reviewer Email" of type email has no name-rule match
\* and resolves through the type fallback.
C15_ReviewerEmailByFallback ==
    fcall.fn = "suggest" =>
        /\ MatchingRules(Lower(fcall.field_name)) = {}
              => fcall.result = TypeFallback(fcall.field_type)
        /\ (fcall.field_name = ReviewerEmail /\ fcall.field_type = "email")
              => /\ MatchingRules(Lower(fcall.field_name)) = {}
                 /\ fcall.result = [pubpub_field |-> "email", confidence |-> "medium"]

\* C15 witness: a name no rule matches, of type email, answered by the fallback.
C15_Witness ==
    /\ fcall.fn = "suggest"
    /\ MatchingRules(Lower(fcall.field_name)) = {}
    /\ fcall.field_type = "email"
    /\ fcall.result = [pubpub_field |-> "email", confidence |-> "medium"]

\* C16 (as claimed): coercing "2022-02-10" with type date gives the ISO date
\* 2022-02-10, and coercing a string that is no date with type date gives it
\* back unchanged.
C16_DateCoercion ==
    (fcall.fn = "format" /\ fcall.field_type = "date" /\ IsStr(fcall.value)) =>
        /\ fcall.value = Str(IsoDay) => fcall.result = Str(IsoDay)
        /\ ~StrptimeAccepts(fcall.value.v) => fcall.result = fcall.value

\* The source types C17 names.
IdempotentTypes == {"singleSelect", "multilineText", "richText", "url", "email",
                    "checkbox"}

\* C17: for the string-typed and boolean-typed source types, coercing a
\* coerced value again with the same type gives it back unchanged.
C17_CoercionIdempotent ==
    (fcall.fn = "format" /\ fcall.again /\ fcall.field_type \in IdempotentTypes)
        => fcall.result = fcall.value

\* C17 witness: a list coerced to its string with a string type, and the
\* string coerced again.
C17_Witness ==
    /\ fcall.fn = "format" /\ fcall.again
    /\ fcall.field_type \in IdempotentTypes
    /\ IsList(fcall.raw) /\ Len(fcall.raw.v) = 2
    /\ IsStr(fcall.value)
    /\ fcall.result = fcall.value

\* A raw value float() cannot read as a number: a list, the empty string, a
\* string holding something else than digits after an optional minus sign.
NonNumeric(value) ==
    \/ IsList(value)
    \/ /\ IsStr(value)
       /\ \/ value.v = <<>>
          \/ \E i \in 1..Len(value.v) :
                ~IsDigit(value.v[i]) /\ ~(i = 1 /\ value.v[i] = "-")

\* The value cannot be given the type of its field.
CannotType(value, field_type) ==
    \/ field_type = "number" /\ NonNumeric(value)
    \/ field_type = "date" /\ ~(IsStr(value) /\ StrptimeAccepts(value.v))
    \/ field_type = "dateTime"
          /\ ~(IsStr(value) /\ FromIsoFormatAccepts(ReplaceZ(value.v)))

\* C18 (amended): the coercer returns a value for every raw value and every
\* source type; a non-numeric value of type number gives null, and a value of
\* type date or dateTime that cannot be read as one is returned unchanged.
C18_NeverRaises ==
    fcall.fn = "format" =>
        /\ fcall.result # Raised
        /\ (~IsNone(fcall.value) /\ CannotType(fcall.value, fcall.field_type)) =>
              IF fcall.field_type = "number" THEN fcall.result = None
              ELSE fcall.result = fcall.value

\* C18 (as claimed): ... a value that cannot be typed gives null or a string.
C18_DegradesToNullOrString ==
    fcall.fn = "format" =>
        /\ fcall.result # Raised
        /\ (~IsNone(fcall.value) /\ CannotType(fcall.value, fcall.field_type)) =>
              (IsNone(fcall.result) \/ IsStr(fcall.result))

\* C18 witness: "N/A" coerced with type number gave null.
C18_Witness ==
    /\ fcall.fn = "format"
    /\ fcall.field_type = "number"
    /\ fcall.value = Str(<<"N","/","A">>)
    /\ fcall.result = None

\* C29 (as claimed): a field named exactly as a pattern of a rule is mapped to
\* the target of that rule with confidence high.
C29_NoPatternShadowed ==
    fcall.fn = "suggest_pattern" =>
        fcall.result = [pubpub_field |-> FIELD_MAPPING_RULES[fcall.rule].pubpub_field,
                        confidence |-> "high"]

(***************************************************************************)
(* Properties of create_pub_from_record (SpecRecord)                       *)
(***************************************************************************)
\* The fields of the call whose mapping targets the title and whose value in
\* the record is not empty.
MappedTitleFields ==
    {i \in 1..Len(fcall.fields) :
        /\ MappingFor(fcall.cache, fcall.fields[i]) # NoMapping
        /\ MappingFor(fcall.cache, fcall.fields[i]).pubpub_field = "title"
        /\ Truthy(FieldOf(fcall.record, fcall.fields[i].id))}

\* The positions in title_candidates of the names of fields with a non-empty
\* value.
FallbacksPresent ==
    {k \in 1..Len(title_candidates) :
        \E i \in 1..Len(fcall.fields) :
            /\ fcall.fields[i].name = title_candidates[k]
            /\ Truthy(FieldOf(fcall.record, fcall.fields[i].id))}

FallbackValue(k) ==
    FieldOf(fcall.record,
            fcall.fields[CHOOSE i \in 1..Len(fcall.fields) :
                             fcall.fields[i].name = title_candidates[k]].id)

\* C25 (as claimed): the title of the request is the value of a mapped title
\* field when one is non-empty, else the first non-empty value among Name,
\* Title, Subject, ID in the order of that list, else "<table> Record <id>"
\* (each with the timestamp appended).
C25_TitlePrecedence ==
    (fcall.fn = "build" /\ fcall.fields \in TitleSchemas) =>
        IF MappedTitleFields # {}
        THEN \E i \in MappedTitleFields :
                fcall.request.title =
                    StampTitle(FieldOf(fcall.record, fcall.fields[i].id).v, 0)
        ELSE IF FallbacksPresent # {}
        THEN fcall.request.title =
                 StampTitle(FallbackValue(Least(FallbacksPresent)).v, 0)
        ELSE fcall.request.title =
                 StampTitle(Pre \o <<" ","R","e","c","o","r","d"," ">> \o RecA, 0)

\* The value of field i of the analyzed schema is in the request: among the
\* relations when the field is mapped to the relations, else in the values
\* under the mapped field (for the title, with the timestamp appended).
Reflected(i) ==
    IF fcall.cache[fcall.schema[i].id].pubpub_field = "relations"
    THEN \A k \in 1..Len(format_field_value(FieldOf(fcall.record, fcall.schema[i].id),
                                            fcall.schema[i].type).v) :
            \E m \in 1..Len(fcall.request.relations) :
                fcall.request.relations[m] =
                    format_field_value(FieldOf(fcall.record, fcall.schema[i].id),
                                       fcall.schema[i].type).v[k]
    ELSE /\ fcall.cache[fcall.schema[i].id].pubpub_field \in DOMAIN fcall.request.values
         /\ fcall.request.values[fcall.cache[fcall.schema[i].id].pubpub_field] \in
               {format_field_value(FieldOf(fcall.record, fcall.schema[i].id),
                                   fcall.schema[i].type),
                Str(StampTitle(PyStr(format_field_value(
                        FieldOf(fcall.record, fcall.schema[i].id),
                        fcall.schema[i].type)), 0))}

\* C26 (as claimed): with the mappings of suggest_mappings, every field that
\* has a suggested mapping and a non-null value in the record is reflected in
\* the record's request.
C26_AnalyzedFieldsReflected ==
    fcall.fn = "build_analyzed" =>
        \A i \in 1..Len(fcall.schema) :
            (/\ fcall.schema[i].id \in DOMAIN fcall.cache
             /\ ~IsNone(FieldOf(fcall.record, fcall.schema[i].id))) => Reflected(i)

\* The ids held by the cross-table-link fields of the record of the call.
LinkedIds ==
    UNION {{FieldOf(fcall.record, fcall.fields[i].id).v[k] :
               k \in 1..Len(FieldOf(fcall.record, fcall.fields[i].id).v)} :
           i \in {j \in 1..Len(fcall.fields) :
                    /\ fcall.fields[j].type = "multipleRecordLinks"
                    /\ IsList(FieldOf(fcall.record, fcall.fields[j].id))}}

\* C28 (as claimed): every id among the relations of a request is held by a
\* cross-table-link field of the record.
C28_RelationsFromLinkFields ==
    fcall.fn = "build" =>
        \A m \in 1..Len(fcall.request.relations) :
            fcall.request.relations[m] \in LinkedIds

(***************************************************************************)
(* Properties of PubPubAPI (SpecDryRun)                                    *)
(***************************************************************************)
\* C20: in dry-run mode every step of a write method appends exactly one
\* record (method, url, payload) to api_calls and leaves the records already
\* there as they are, sends no request to the target, and returns the
\* placeholder id.
C20_DryRunOnlyRecords ==
    [][dry_run =>
          /\ Len(api_calls') = Len(api_calls) + 1
          /\ SubSeq(api_calls', 1, Len(api_calls)) = api_calls
          /\ DOMAIN api_calls'[Len(api_calls')] = {"method", "url", "data"}
          /\ requests_sent' = <<>>
          /\ returned' = [kind |-> "value", value |-> [id |-> "dry-run-id"]]]_vars

\* C20 witness: a dry run that recorded a create, a stage update and a
\* relation update, and sent nothing.
C20_Witness ==
    /\ dry_run
    /\ Len(api_calls) = 3
    /\ api_calls[1].method = "POST"
    /\ Len(api_calls[2].url) = 3 /\ api_calls[2].url[3] = "stage"
    /\ Len(api_calls[3].url) = 3 /\ api_calls[3].url[3] = "relations"
    /\ requests_sent = <<>>
    /\ returned = [kind |-> "value", value |-> [id |-> "dry-run-id"]]

\* C24 (as claimed): for a field the mappings file has an entry for, the
\* mapping create_pub_from_record uses is the one it computes when the file
\* has no entry for that field.
C24_CacheAgreesWithSuggester ==
    (fcall.fn = "mapping_for" /\ fcall.cached # NoMapping) =>
        fcall.result = fcall.computed

(***************************************************************************)
(* Properties of pubpub_dryrun.py (SpecMock)                               *)
(***************************************************************************)
\* The processing of at least one preprint has failed.
RecordFailed ==
    \E i \in 1..Len(results.errors) : results.errors[i].type = "processing"

====
